---- MODULE Spec2Model ----
(***************************************************************************)
(* A model of render.js: the seeded random generator, per-pixel sampling,  *)
(* the single-threaded render loop and the multi-threaded tile scheduler   *)
(* (strips, workers, promises, reassembly).                                *)
(*                                                                         *)
(* Numbers.  JavaScript numbers are IEEE-754 doubles.  Integer arithmetic  *)
(* on the generator state is exact below 2^53 and is modelled exactly, on  *)
(* 16-bit limbs.  Vec3 arithmetic rounds after every operation; it is      *)
(* modelled in binary fixed point (scale FScale), rounding to             *)
(* nearest after every operation, so that normalising twice or rebuilding  *)
(* a basis is not assumed to be the identity.  traceRay is a deterministic *)
(* function of the ray, the scene and the depth; a traced sample is kept   *)
(* as that triple.                                                         *)
(***************************************************************************)
EXTENDS Integers, Sequences, FiniteSets, TLC

VARIABLES
    rng,        \* a SeededRandom instance: its seed field and the last call
    st,         \* the Raytracer object (single-threaded): its fields
    mt,         \* the MultiThreadedRaytracer object: its fields
    px,         \* the value returned by the last direct renderPixel call
    stImage,    \* what Raytracer.render() returned (<<>> before it ran)
    stDone,     \* whether Raytracer.render() has returned
    tiles,      \* render(): the tiles array
    sent,       \* per tile: the message posted to its worker
    started,    \* per tile: how many workers were created for it
    worker,     \* per tile: the worker thread's position
    events,     \* per tile: events emitted by the worker, not yet handled
    promise,    \* per tile: the promise of createWorkerForTile
    arrival,    \* the tile ids in the order their results were accepted
    render,     \* MultiThreadedRaytracer.render(): "idle", "pending", "resolved", "rejected"
    image,      \* the image render() returned (<<>> unless resolved)
    call        \* the last direct call of a method: its name, arguments and result

vars == <<rng, st, mt, px, stImage, stDone, tiles, sent, started, worker,
          events, promise, arrival, render, image, call>>

(***************************************************************************)
(* Bounds of the model.                                                    *)
(***************************************************************************)
MaxWidth == 2
MaxHeight == 4
MaxThreads == 3
MaxSamples == 5
MaxCalls == 3
MaxSeed == 20

(***************************************************************************)
(* Sequence helpers.                                                       *)
(***************************************************************************)
RECURSIVE Concat(_)
Concat(ss) == IF ss = <<>> THEN <<>> ELSE Head(ss) \o Concat(Tail(ss))

Abs(n) == IF n < 0 THEN -n ELSE n
Min(a, b) == IF a < b THEN a ELSE b
Max(a, b) == IF a > b THEN a ELSE b

(***************************************************************************)
(* SeededRandom (random.js).  A state is a signed 32-bit magnitude split   *)
(* in two 16-bit limbs: value = (neg ? -1 : 1) * (hi * 2^16 + lo).         *)
(***************************************************************************)
LcgA == 1664525
LcgC == 1013904223
Limb == 2^16

ToState(n) == [neg |-> n < 0, hi |-> Abs(n) \div Limb, lo |-> Abs(n) % Limb]

\* a <= b on 32-bit magnitudes
MagLeq(ahi, alo, bhi, blo) == ahi < bhi \/ (ahi = bhi /\ alo <= blo)

\* (a + b) mod 2^32 and (a - b) mod 2^32 on 32-bit magnitudes
MagAdd(ahi, alo, bhi, blo) ==
    LET l == alo + blo
        h == ahi + bhi + (l \div Limb)
    IN  [hi |-> h % Limb, lo |-> l % Limb]

MagSub(ahi, alo, bhi, blo) ==
    LET borrow == IF alo < blo THEN 1 ELSE 0
        l == alo + borrow * Limb - blo
        h == ahi + Limb - bhi - borrow
    IN  [hi |-> h % Limb, lo |-> l]

\* 1664525 * |s| as [high |-> floor(P / 2^32), hi, lo |-> the low 32 bits]
LcgProduct(s) ==
    LET t0 == (LcgA % Limb) * s.lo
        t1 == (LcgA \div Limb) * s.lo + (LcgA % Limb) * s.hi + (t0 \div Limb)
    IN  [high |-> (LcgA \div Limb) * s.hi + (t1 \div Limb),
         hi |-> t1 % Limb, lo |-> t0 % Limb]

\* JavaScript (1664525 * seed + 1013904223) % (2 ** 32): the remainder takes
\* the sign of the dividend.
LcgNext(s) ==
    LET p == LcgProduct(s)
        chi == LcgC \div Limb
        clo == LcgC % Limb
    IN  IF ~s.neg
        THEN LET m == MagAdd(p.hi, p.lo, chi, clo)
             IN  [neg |-> FALSE, hi |-> m.hi, lo |-> m.lo]
        ELSE IF p.high = 0 /\ MagLeq(p.hi, p.lo, chi, clo)
             THEN LET m == MagSub(chi, clo, p.hi, p.lo)
                  IN  [neg |-> FALSE, hi |-> m.hi, lo |-> m.lo]
             ELSE LET m == MagSub(p.hi, p.lo, chi, clo)
                  IN  [neg |-> (m.hi # 0 \/ m.lo # 0), hi |-> m.hi, lo |-> m.lo]

\* new SeededRandom(seed)
\* (prev, ret, calls and op record the last call on the instance)
NewRandom(seed) == [seed |-> ToState(seed), prev |-> ToState(seed),
                    ret |-> ToState(0), calls |-> 0, op |-> "new"]

\* setSeed(seed)
SetSeed(r, seed) == [r EXCEPT !.seed = ToState(seed), !.op = "setSeed"]

\* random(): advances the seed and returns seed / 2^32 (kept as its numerator)
RandomCall(r) ==
    LET n == LcgNext(r.seed)
    IN  [seed |-> n, prev |-> r.seed, ret |-> n, calls |-> r.calls + 1, op |-> "random"]

\* getPixelSeed(baseSeed, x, y, width, height)
getPixelSeed(baseSeed, x, y, width, height) ==
    LET pixelIndex == y * width + x
    IN  baseSeed + pixelIndex * 1337 + x * 7919 + y * 3571

\* a variant that seeds the generator with the base seed, the same for every pixel
createPixelRandom_Shared(baseSeed, x, y, width, height) == NewRandom(baseSeed)

\* createPixelRandom(baseSeed, x, y, width, height)
createPixelRandom(baseSeed, x, y, width, height) ==
    NewRandom(getPixelSeed(baseSeed, x, y, width, height))

(***************************************************************************)
(* Vec3 (math.js) in binary fixed point: a number v stands for v / FScale, *)
(* and every product, quotient and square root is rounded to nearest.      *)
(***************************************************************************)
FScale == 2^10

RoundDiv(a, b) ==
    IF a >= 0 THEN (2 * a + b) \div (2 * b) ELSE -((2 * (-a) + b) \div (2 * b))

FMul(a, b) == RoundDiv(a * b, FScale)
FDiv(a, b) == RoundDiv(a * FScale, b)

RECURSIVE FloorSqrt(_, _, _)
FloorSqrt(n, lo, hi) ==
    IF hi - lo <= 1 THEN lo
    ELSE LET mid == (lo + hi) \div 2
         IN  IF mid * mid <= n THEN FloorSqrt(n, mid, hi) ELSE FloorSqrt(n, lo, mid)

\* Math.sqrt on a fixed-point number
FSqrt(a) ==
    LET n == a * FScale
        r == FloorSqrt(n, 0, 46340)
    IN  IF n - r * r > r THEN r + 1 ELSE r

Vec3(x, y, z) == <<x * FScale, y * FScale, z * FScale>>
VAdd(a, b) == <<a[1] + b[1], a[2] + b[2], a[3] + b[3]>>
VSub(a, b) == <<a[1] - b[1], a[2] - b[2], a[3] - b[3]>>
VMultiply(a, k) == <<FMul(a[1], k), FMul(a[2], k), FMul(a[3], k)>>
VDot(a, b) == FMul(a[1], b[1]) + FMul(a[2], b[2]) + FMul(a[3], b[3])
VCross(a, b) ==
    <<FMul(a[2], b[3]) - FMul(a[3], b[2]),
      FMul(a[3], b[1]) - FMul(a[1], b[3]),
      FMul(a[1], b[2]) - FMul(a[2], b[1])>>
VLength(a) == FSqrt(VDot(a, a))
VNormalize(a) ==
    LET len == VLength(a)
    IN  IF len > 0 THEN <<FDiv(a[1], len), FDiv(a[2], len), FDiv(a[3], len)>>
        ELSE <<0, 0, 0>>

VNegate(a) == <<-a[1], -a[2], -a[3]>>

\* v.reflect(normal) = v - normal * (2 * v.dot(normal))
VReflect(v, normal) == VSub(v, VMultiply(normal, 2 * VDot(v, normal)))

\* new Ray(origin, direction, tMin, tMax): the direction is normalised
Ray(origin, direction, tMin, tMax) ==
    [origin |-> origin, direction |-> VNormalize(direction), tMin |-> tMin, tMax |-> tMax]

\* ray.at(t)
RayAt(ray, t) == VAdd(ray.origin, VMultiply(ray.direction, t))

(***************************************************************************)
(* Color (math.js): the constructor clamps each channel to [0, 1].         *)
(***************************************************************************)
\* The doubles that are not finite: Infinity, -Infinity and NaN.  A finite
\* number of the model is far below 2^30 in size.
Infinity == 2^30
NegInfinity == 0 - 2^30
NaN == 2^30 + 1

\* Math.max(0, Math.min(1, c)): Math.min and Math.max return NaN for a NaN
Clamp01(c) ==
    IF c = NaN THEN NaN ELSE IF c < 0 THEN 0 ELSE IF c > FScale THEN FScale ELSE c

Color(r, g, b) == [r |-> Clamp01(r), g |-> Clamp01(g), b |-> Clamp01(b)]

\* a + b on doubles, one of which may be NaN or infinite
NumAdd(x, y) ==
    IF x = NaN \/ y = NaN THEN NaN
    ELSE IF x = Infinity THEN (IF y = NegInfinity THEN NaN ELSE Infinity)
    ELSE IF x = NegInfinity THEN (IF y = Infinity THEN NaN ELSE NegInfinity)
    ELSE IF y = Infinity \/ y = NegInfinity THEN y
    ELSE x + y

\* a * b on doubles: 0 * Infinity is NaN
NumMul(x, y) ==
    IF x = NaN \/ y = NaN THEN NaN
    ELSE IF x \in {Infinity, NegInfinity} \/ y \in {Infinity, NegInfinity}
         THEN IF x = 0 \/ y = 0 THEN NaN
              ELSE IF (x > 0) = (y > 0) THEN Infinity ELSE NegInfinity
    ELSE FMul(x, y)

\* 1.0 / n for a count n: 1 / 0 is Infinity
Reciprocal(n) == IF n = 0 THEN Infinity ELSE FDiv(FScale, n * FScale)

\* Color.add, Color.multiply, Color.blend
ColorAdd(c, d) == Color(NumAdd(c.r, d.r), NumAdd(c.g, d.g), NumAdd(c.b, d.b))
ColorMultiply(c, scalar) ==
    Color(NumMul(c.r, scalar), NumMul(c.g, scalar), NumMul(c.b, scalar))
ColorBlend(c, d) == Color(NumMul(c.r, d.r), NumMul(c.g, d.g), NumMul(c.b, d.b))

(***************************************************************************)
(* Camera (raytracer.js).                                                  *)
(***************************************************************************)
\* Math.tan(fov * Math.PI / 180 / 2), for the fields of view of the model
TanHalfFov(fovDegrees) ==
    IF fovDegrees = 90 THEN FScale ELSE RoundDiv(FScale * 41421, 100000)

Camera(position, target, up, fov, aspectRatio) ==
    LET up0 == VNormalize(up)
        forward == VNormalize(VSub(target, position))
        right == VNormalize(VCross(forward, up0))
        up1 == VNormalize(VCross(right, forward))
        halfHeight == TanHalfFov(fov)
        halfWidth == FMul(halfHeight, aspectRatio)
    IN  [position |-> position, target |-> target, up |-> up1,
         fovDegrees |-> fov, aspectRatio |-> aspectRatio,
         forward |-> forward, right |-> right,
         lowerLeftCorner |->
             VAdd(VSub(VSub(position, VMultiply(right, halfWidth)),
                       VMultiply(up1, halfHeight)), forward),
         horizontal |-> VMultiply(right, 2 * halfWidth),
         vertical |-> VMultiply(up1, 2 * halfHeight)]

\* Camera.getRay(u, v): the ray is kept as the camera vectors it is built
\* from and the two image-plane coordinates.
getRay(camera, u, v) ==
    [origin |-> camera.position, lowerLeftCorner |-> camera.lowerLeftCorner,
     horizontal |-> camera.horizontal, vertical |-> camera.vertical,
     u |-> u, v |-> v]

(***************************************************************************)
(* Geometry and Scene (geometry.js).  An object is the record of the       *)
(* fields its constructor sets.                                            *)
(***************************************************************************)
\* whether a property is set on an object (the truth test of obj.center, obj.point, ...)
Has(obj, field) == field \in DOMAIN obj

Material(color, ambient, diffuse, specular, shininess, reflectivity) ==
    [color |-> color, ambient |-> ambient, diffuse |-> diffuse,
     specular |-> specular, shininess |-> shininess, reflectivity |-> reflectivity]

Sphere(center, radius, material) ==
    [center |-> center, radius |-> radius, material |-> material]

Plane(point, normal, material) ==
    [point |-> point, normal |-> VNormalize(normal), material |-> material]

Triangle(v0, v1, v2, material) ==
    [v0 |-> v0, v1 |-> v1, v2 |-> v2, material |-> material,
     normal |-> VNormalize(VCross(VSub(v1, v0), VSub(v2, v0)))]

Light(position, color, intensity) ==
    [position |-> position, color |-> color, intensity |-> intensity]

Scene(objects, lights, backgroundColor) ==
    [objects |-> objects, lights |-> lights, backgroundColor |-> backgroundColor]

\* A miss (intersect returned false, Scene.intersect returned null) and a hit
\* record filled by intersect: t, point, the normal turned against the ray
\* by setFaceNormal, the material.
Miss == [hit |-> FALSE]

\* a variant that stores the outward normal whatever side the ray comes from
HitRecord_NoFlip(ray, t, outwardNormal, material) ==
    LET frontFace == VDot(ray.direction, outwardNormal) < 0
    IN  [hit |-> TRUE, t |-> t, point |-> RayAt(ray, t),
         normal |-> outwardNormal, material |-> material, frontFace |-> frontFace]

\* new HitRecord() filled by an intersect method: t, point = ray.at(t),
\* setFaceNormal(ray, outwardNormal) and the material
HitRecord(ray, t, outwardNormal, material) ==
    LET frontFace == VDot(ray.direction, outwardNormal) < 0
    IN  [hit |-> TRUE, t |-> t, point |-> RayAt(ray, t),
         normal |-> IF frontFace THEN outwardNormal ELSE VNegate(outwardNormal),
         material |-> material, frontFace |-> frontFace]

\* the two roots of |O + tD - C|^2 = r^2 as Sphere.intersect computes them,
\* smaller first; <<>> when the discriminant is negative
SphereRoots(sphere, ray) ==
    LET oc == VSub(ray.origin, sphere.center)
        a == VDot(ray.direction, ray.direction)
        b == 2 * VDot(oc, ray.direction)
        c == VDot(oc, oc) - FMul(sphere.radius, sphere.radius)
        discriminant == FMul(b, b) - 4 * FMul(a, c)
        sqrtD == FSqrt(discriminant)
    IN  IF discriminant < 0 THEN <<>>
        ELSE <<FDiv((0 - b) - sqrtD, 2 * a), FDiv((0 - b) + sqrtD, 2 * a)>>

\* a variant that tries the larger root first
SphereRoot_LargerFirst(roots, tMin, tMax) ==
    IF roots = <<>> THEN <<>>
    ELSE IF roots[2] < tMin \/ roots[2] > tMax
         THEN IF roots[1] < tMin \/ roots[1] > tMax THEN <<>> ELSE <<roots[1]>>
    ELSE <<roots[2]>>

\* the root Sphere.intersect keeps: the first unless it is outside
\* [tMin, tMax], then the second unless it is outside too (<<>>: return false)
SphereRoot(roots, tMin, tMax) ==
    IF roots = <<>> THEN <<>>
    ELSE IF roots[1] < tMin \/ roots[1] > tMax
         THEN IF roots[2] < tMin \/ roots[2] > tMax THEN <<>> ELSE <<roots[2]>>
    ELSE <<roots[1]>>

\* Sphere.intersect(ray, tMin, tMax, hitRecord)
SphereIntersect(sphere, ray, tMin, tMax) ==
    LET root == SphereRoot(SphereRoots(sphere, ray), tMin, tMax)
    IN  IF root = <<>> THEN Miss
        ELSE HitRecord(ray, root[1],
                       VMultiply(VSub(RayAt(ray, root[1]), sphere.center),
                                 FDiv(FScale, sphere.radius)),
                       sphere.material)

\* Plane.intersect: |denom| < 1e-8 is denom = 0 at the resolution of the model
PlaneIntersect(plane, ray, tMin, tMax) ==
    LET denom == VDot(plane.normal, ray.direction)
    IN  IF Abs(denom) < 1 THEN Miss
        ELSE LET t == FDiv(VDot(VSub(plane.point, ray.origin), plane.normal), denom)
             IN  IF t < tMin \/ t > tMax THEN Miss
                 ELSE HitRecord(ray, t, plane.normal, plane.material)

\* the barycentric tests of Triangle.intersect: u < 0 || u > 1 and
\* v < 0 || u + v > 1 reject
TriangleInside(u, v) == ~(u < 0 \/ u > FScale) /\ ~(v < 0 \/ u + v > FScale)

\* Triangle.intersect (Moller-Trumbore)
TriangleIntersect(triangle, ray, tMin, tMax) ==
    LET edge1 == VSub(triangle.v1, triangle.v0)
        edge2 == VSub(triangle.v2, triangle.v0)
        h == VCross(ray.direction, edge2)
        a == VDot(edge1, h)
    IN  IF a > -1 /\ a < 1 THEN Miss
        ELSE LET f == FDiv(FScale, a)
                 s == VSub(ray.origin, triangle.v0)
                 u == FMul(f, VDot(s, h))
                 q == VCross(s, edge1)
                 v == FMul(f, VDot(ray.direction, q))
                 t == FMul(f, VDot(edge2, q))
             IN  IF ~TriangleInside(u, v) THEN Miss
                 ELSE IF t < tMin \/ t > tMax THEN Miss
                 ELSE HitRecord(ray, t, triangle.normal, triangle.material)

\* object.intersect(...): the method of the object's class
ObjectIntersect(object, ray, tMin, tMax) ==
    IF Has(object, "center") THEN SphereIntersect(object, ray, tMin, tMax)
    ELSE IF Has(object, "point") THEN PlaneIntersect(object, ray, tMin, tMax)
    ELSE TriangleIntersect(object, ray, tMin, tMax)

\* the default tMin of Scene.intersect, 0.001
TMin == RoundDiv(FScale, 1000)

\* the loop of Scene.intersect from object i on
\* a variant that tests every object against the whole interval
RECURSIVE SceneLoop_NoNarrowing(_, _, _, _, _, _)
SceneLoop_NoNarrowing(objects, ray, tMin, closestSoFar, hitRecord, i) ==
    IF i > Len(objects) THEN hitRecord
    ELSE LET tempRecord == ObjectIntersect(objects[i], ray, tMin, closestSoFar)
         IN  IF tempRecord.hit
             THEN SceneLoop_NoNarrowing(objects, ray, tMin, closestSoFar, tempRecord, i + 1)
             ELSE SceneLoop_NoNarrowing(objects, ray, tMin, closestSoFar, hitRecord, i + 1)

RECURSIVE SceneLoop(_, _, _, _, _, _)
SceneLoop(objects, ray, tMin, closestSoFar, hitRecord, i) ==
    IF i > Len(objects) THEN hitRecord
    ELSE LET tempRecord == ObjectIntersect(objects[i], ray, tMin, closestSoFar)
         IN  IF tempRecord.hit
             THEN SceneLoop(objects, ray, tMin, tempRecord.t, tempRecord, i + 1)
             ELSE SceneLoop(objects, ray, tMin, closestSoFar, hitRecord, i + 1)

\* Scene.intersect(ray, tMin, tMax): the fields tMin and tMax of the ray are not read
SceneIntersect(scene, ray, tMin, tMax) == SceneLoop(scene.objects, ray, tMin, tMax, Miss, 1)

(***************************************************************************)
(* NURBSSurface (geometry.js): construction, evaluation and intersection.  *)
(* tessellate names the points of the grid by their grid index <<i, j>>,   *)
(* which stands for evaluatePoint(i / resolution, j / resolution);         *)
(* Tessellated evaluates them.                                             *)
(***************************************************************************)
Resolution == 15

\* a variant that leaves out the + 1
validate_NoPlusOne(surface) ==
    /\ Len(surface.uKnots) = surface.uCount + surface.uDegree
    /\ Len(surface.vKnots) = surface.vCount + surface.vDegree

validate(surface) ==
    LET expectedUKnots == surface.uCount + surface.uDegree + 1
        expectedVKnots == surface.vCount + surface.vDegree + 1
    IN  Len(surface.uKnots) = expectedUKnots /\ Len(surface.vKnots) = expectedVKnots

\* the value findKnotSpan has when its while loop never exits
Diverges == -1

\* the while loop of findKnotSpan from (low, high); mid is recomputed from
\* low and high alone, so an iteration that changes neither repeats for ever
RECURSIVE KnotSearch(_, _, _, _)
KnotSearch(u, knots, low, high) ==
    LET mid == (low + high) \div 2
    IN  IF u < knots[mid + 1] \/ u >= knots[mid + 2]
        THEN LET below == u < knots[mid + 1]
                 newLow == IF below THEN low ELSE mid
                 newHigh == IF below THEN mid ELSE high
             IN  IF newLow = low /\ newHigh = high THEN Diverges
                 ELSE KnotSearch(u, knots, newLow, newHigh)
        ELSE mid

\* findKnotSpan(u, knots, degree); knots[i] of the code is knots[i + 1] here
findKnotSpan(u, knots, degree) ==
    LET n == Len(knots) - degree - 2
    IN  IF u >= knots[n + 2] THEN n
        ELSE IF u <= knots[degree + 1] THEN degree
        ELSE KnotSearch(u, knots, degree, n + 1)

\* the inner loop of computeBasisFunctions for one j, from r on; basis[r]
\* of the code is basis[r + 1] here, left[k] = u - knots[span + 1 - k] and
\* right[k] = knots[span + k] - u
RECURSIVE BasisInner(_, _, _, _, _, _, _)
BasisInner(basis, j, r, saved, span, u, knots) ==
    IF r = j THEN Append(basis, saved)
    ELSE LET right == knots[span + r + 2] - u
             left == u - knots[span + 2 - (j - r)]
             temp == FDiv(basis[r + 1], right + left)
         IN  BasisInner([basis EXCEPT ![r + 1] = saved + FMul(right, temp)],
                        j, r + 1, FMul(left, temp), span, u, knots)

RECURSIVE BasisOuter(_, _, _, _, _, _)
BasisOuter(basis, j, span, u, knots, degree) ==
    IF j > degree THEN basis
    ELSE BasisOuter(BasisInner(basis, j, 0, 0, span, u, knots), j + 1, span, u, knots, degree)

\* computeBasisFunctions(span, u, knots, degree) (Cox-de Boor)
computeBasisFunctions(span, u, knots, degree) ==
    BasisOuter(<<FScale>>, 1, span, u, knots, degree)

\* the sums the double loop of evaluatePoint accumulates over the index
\* pairs of S: terms[ij] is <<point * basisValue, basisValue>>
RECURSIVE Accumulate(_, _)
Accumulate(S, terms) ==
    IF S = {} THEN <<(<<0, 0, 0>>), 0>>
    ELSE LET ij == CHOOSE x \in S : TRUE
             rest == Accumulate(S \ {ij}, terms)
         IN  <<VAdd(rest[1], terms[ij][1]), rest[2] + terms[ij][2]>>

\* evaluatePoint(u, v): the rational sum over the control points of the
\* span; |denominator| < 1e-10 is denominator = 0 at the resolution of the
\* model
evaluatePoint(surface, u0, v0) ==
    LET u == Max(0, Min(FScale, u0))
        v == Max(0, Min(FScale, v0))
        uSpan == findKnotSpan(u, surface.uKnots, surface.uDegree)
        vSpan == findKnotSpan(v, surface.vKnots, surface.vDegree)
        uBasis == computeBasisFunctions(uSpan, u, surface.uKnots, surface.uDegree)
        vBasis == computeBasisFunctions(vSpan, v, surface.vKnots, surface.vDegree)
        uIndex(i) == uSpan - surface.uDegree + i
        vIndex(j) == vSpan - surface.vDegree + j
        inside == {ij \in (0..surface.uDegree) \X (0..surface.vDegree) :
                      /\ uIndex(ij[1]) >= 0 /\ uIndex(ij[1]) < surface.uCount
                      /\ vIndex(ij[2]) >= 0 /\ vIndex(ij[2]) < surface.vCount}
        basisValue(ij) ==
            FMul(FMul(uBasis[ij[1] + 1], vBasis[ij[2] + 1]),
                 surface.weights[uIndex(ij[1]) + 1][vIndex(ij[2]) + 1])
        terms == [ij \in inside |->
                     <<VMultiply(surface.controlPoints[uIndex(ij[1]) + 1][vIndex(ij[2]) + 1],
                                 basisValue(ij)),
                       basisValue(ij)>>]
        numerator == Accumulate(inside, terms)[1]
        denominator == Accumulate(inside, terms)[2]
    IN  IF Abs(denominator) < 1 THEN <<0, 0, 0>>
        ELSE VMultiply(numerator, FDiv(FScale, denominator))

\* one axis of computeBoundingBox: the extent of the control points, widened
\* by epsilon on both sides when it is thinner than epsilon
BoxAxis(surface, axis) ==
    LET values == {surface.controlPoints[i][j][axis] :
                       i \in 1..surface.uCount, j \in 1..surface.vCount}
        lo == CHOOSE m \in values : \A n \in values : m <= n
        hi == CHOOSE m \in values : \A n \in values : m >= n
        epsilon == RoundDiv(FScale, 1000)
    IN  IF Abs(hi - lo) < epsilon THEN <<lo - epsilon, hi + epsilon>>
        ELSE <<lo, hi>>

computeBoundingBox(surface) ==
    [min |-> <<BoxAxis(surface, 1)[1], BoxAxis(surface, 2)[1], BoxAxis(surface, 3)[1]>>,
     max |-> <<BoxAxis(surface, 1)[2], BoxAxis(surface, 2)[2], BoxAxis(surface, 3)[2]>>]

\* tessellate: two triangles for the cell (i, j), cells in row-major order
tessellate(surface) ==
    [k \in 1..(2 * Resolution * Resolution) |->
        LET cell == (k - 1) \div 2
            i == cell \div Resolution
            j == cell % Resolution
        IN  IF k % 2 = 1
            THEN [p0 |-> <<i, j>>, p1 |-> <<i, j + 1>>, p2 |-> <<i + 1, j>>,
                  material |-> surface.material]
            ELSE [p0 |-> <<i + 1, j>>, p1 |-> <<i, j + 1>>, p2 |-> <<i + 1, j + 1>>,
                  material |-> surface.material]]

\* new NURBSSurface(...): the constructed surface, or the error thrown
NURBSSurface(controlPoints, weights, uKnots, vKnots, uDegree, vDegree, material) ==
    LET this == [controlPoints |-> controlPoints, weights |-> weights,
                 uKnots |-> uKnots, vKnots |-> vKnots,
                 uDegree |-> uDegree, vDegree |-> vDegree, material |-> material,
                 uCount |-> Len(controlPoints), vCount |-> Len(controlPoints[1])]
    IN  IF ~validate(this)
        THEN [threw |-> TRUE, error |-> "Invalid NURBS surface parameters"]
        ELSE [threw |-> FALSE,
              surface |-> [n \in DOMAIN this \cup {"boundingBox", "triangles"} |->
                              CASE n = "boundingBox" -> computeBoundingBox(this)
                                [] n = "triangles" -> tessellate(this)
                                [] OTHER -> this[n]]]

\* the surface with the points of its mesh evaluated: points[i][j] =
\* evaluatePoint(i / resolution, j / resolution), and each triangle of
\* tessellate a Triangle over its three points
Tessellated(surface) ==
    LET points == [i \in 0..Resolution |-> [j \in 0..Resolution |->
                      evaluatePoint(surface, FDiv(i * FScale, Resolution * FScale),
                                    FDiv(j * FScale, Resolution * FScale))]]
        point(ij) == points[ij[1]][ij[2]]
    IN  [surface EXCEPT !.triangles =
            [k \in DOMAIN @ |-> Triangle(point(@[k].p0), point(@[k].p1), point(@[k].p2),
                                          @[k].material)]]

\* the loop of intersectBoundingBox from axis i on; |rayDir| < 1e-10 is
\* rayDir = 0 at the resolution of the model
RECURSIVE BoxLoop(_, _, _, _, _)
BoxLoop(box, ray, tMin, tMax, i) ==
    IF i > 3 THEN TRUE
    ELSE LET rayOrigin == ray.origin[i]
             rayDir == ray.direction[i]
             minVal == box.min[i]
             maxVal == box.max[i]
         IN  IF Abs(rayDir) < 1
             THEN IF rayOrigin < minVal \/ rayOrigin > maxVal THEN FALSE
                  ELSE BoxLoop(box, ray, tMin, tMax, i + 1)
             ELSE LET t1 == FDiv(minVal - rayOrigin, rayDir)
                      t2 == FDiv(maxVal - rayOrigin, rayDir)
                      tNear == Min(t1, t2)
                      tFar == Max(t1, t2)
                      newMin == Max(tMin, tNear)
                      newMax == Min(tMax, tFar)
                  IN  IF newMin > newMax THEN FALSE
                      ELSE BoxLoop(box, ray, newMin, newMax, i + 1)

\* intersectBoundingBox(ray, tMin, tMax)
intersectBoundingBox(surface, ray, tMin, tMax) ==
    BoxLoop(surface.boundingBox, ray, tMin, tMax, 1)

\* a variant of the loop that keeps the first triangle hit
RECURSIVE MeshLoop_FirstHit(_, _, _, _, _, _, _)
MeshLoop_FirstHit(triangles, ray, tMin, closestT, hitRecord, first, last) ==
    IF first > last THEN hitRecord
    ELSE IF first = last
    THEN LET tempRecord == TriangleIntersect(triangles[first], ray, tMin, closestT)
         IN  IF tempRecord.hit /\ ~hitRecord.hit THEN tempRecord ELSE hitRecord
    ELSE LET middle == (first + last) \div 2
             sofar == MeshLoop_FirstHit(triangles, ray, tMin, closestT, hitRecord,
                                        first, middle)
         IN  IF sofar.hit
             THEN MeshLoop_FirstHit(triangles, ray, tMin, sofar.t, sofar, middle + 1, last)
             ELSE MeshLoop_FirstHit(triangles, ray, tMin, closestT, sofar, middle + 1, last)

\* the loop of NURBSSurface.intersect over the triangles first..last of
\* this.triangles, in order: closestT is tMax until a triangle is hit and the
\* t of hitRecord afterwards.  The range is walked in two halves, the first
\* half before the second.
RECURSIVE MeshLoop(_, _, _, _, _, _, _)
MeshLoop(triangles, ray, tMin, closestT, hitRecord, first, last) ==
    IF first > last THEN hitRecord
    ELSE IF first = last
    THEN LET tempRecord == TriangleIntersect(triangles[first], ray, tMin, closestT)
         IN  IF tempRecord.hit THEN tempRecord ELSE hitRecord
    ELSE LET middle == (first + last) \div 2
             sofar == MeshLoop(triangles, ray, tMin, closestT, hitRecord, first, middle)
         IN  IF sofar.hit
             THEN MeshLoop(triangles, ray, tMin, sofar.t, sofar, middle + 1, last)
             ELSE MeshLoop(triangles, ray, tMin, closestT, sofar, middle + 1, last)

\* NURBSSurface.intersect(ray, tMin, tMax, hitRecord); nothing of the
\* surface is assigned
NURBSIntersect(surface, ray, tMin, tMax) ==
    IF ~intersectBoundingBox(surface, ray, tMin, tMax) THEN Miss
    ELSE MeshLoop(surface.triangles, ray, tMin, tMax, Miss, 1, Len(surface.triangles))

(***************************************************************************)
(* Serialization (multi-threaded-raytracer.js) and reconstruction          *)
(* (render-worker.js).  postMessage copies plain data unchanged.           *)
(***************************************************************************)
serializeMaterial(m) ==
    [color |-> [r |-> m.color.r, g |-> m.color.g, b |-> m.color.b],
     ambient |-> m.ambient, diffuse |-> m.diffuse, specular |-> m.specular,
     shininess |-> m.shininess, reflectivity |-> m.reflectivity]

serializeObject(obj) ==
    IF Has(obj, "center")
    THEN [type |-> "sphere", center |-> obj.center, radius |-> obj.radius,
          material |-> serializeMaterial(obj.material)]
    ELSE IF Has(obj, "point")
    THEN [type |-> "plane", point |-> obj.point, normal |-> obj.normal,
          material |-> serializeMaterial(obj.material)]
    ELSE IF Has(obj, "v0")
    THEN [type |-> "triangle", v0 |-> obj.v0, v1 |-> obj.v1, v2 |-> obj.v2,
          material |-> serializeMaterial(obj.material)]
    ELSE IF Has(obj, "controlPoints")
    THEN [type |-> "nurbs", controlPoints |-> obj.controlPoints, weights |-> obj.weights,
          uKnots |-> obj.uKnots, vKnots |-> obj.vKnots,
          uDegree |-> obj.uDegree, vDegree |-> obj.vDegree,
          material |-> serializeMaterial(obj.material)]
    ELSE [type |-> "undefined"]

serializeScene(scene) ==
    [objects |->
         SelectSeq([i \in 1..Len(scene.objects) |-> serializeObject(scene.objects[i])],
                   LAMBDA o : o.type # "undefined"),
     lights |->
         [i \in 1..Len(scene.lights) |->
             [position |-> scene.lights[i].position,
              color |-> [r |-> scene.lights[i].color.r, g |-> scene.lights[i].color.g,
                         b |-> scene.lights[i].color.b],
              intensity |-> scene.lights[i].intensity]],
     backgroundColor |-> [r |-> scene.backgroundColor.r, g |-> scene.backgroundColor.g,
                          b |-> scene.backgroundColor.b]]

serializeCamera(camera) ==
    [position |-> camera.position, target |-> camera.target, up |-> camera.up,
     fov |-> camera.fovDegrees, aspectRatio |-> camera.aspectRatio]

reconstructMaterial(m) ==
    Material(Color(m.color.r, m.color.g, m.color.b), m.ambient, m.diffuse,
             m.specular, m.shininess, m.reflectivity)

reconstructObject(objData) ==
    IF objData.type = "sphere"
    THEN Sphere(objData.center, objData.radius, reconstructMaterial(objData.material))
    ELSE IF objData.type = "plane"
    THEN Plane(objData.point, objData.normal, reconstructMaterial(objData.material))
    ELSE IF objData.type = "triangle"
    THEN Triangle(objData.v0, objData.v1, objData.v2,
                  reconstructMaterial(objData.material))
    ELSE NURBSSurface(objData.controlPoints, objData.weights, objData.uKnots,
                      objData.vKnots, objData.uDegree, objData.vDegree,
                      reconstructMaterial(objData.material)).surface

reconstructScene(sceneData) ==
    Scene([i \in 1..Len(sceneData.objects) |-> reconstructObject(sceneData.objects[i])],
          [i \in 1..Len(sceneData.lights) |->
              Light(sceneData.lights[i].position,
                    Color(sceneData.lights[i].color.r, sceneData.lights[i].color.g,
                          sceneData.lights[i].color.b),
                    sceneData.lights[i].intensity)],
          Color(sceneData.backgroundColor.r, sceneData.backgroundColor.g,
                sceneData.backgroundColor.b))

reconstructCamera(cameraData) ==
    Camera(cameraData.position, cameraData.target, cameraData.up,
           cameraData.fov, cameraData.aspectRatio)

(***************************************************************************)
(* Raytracer (raytracer.js).  A pixel colour is kept as the computation    *)
(* that yields it: the traced samples (ray and depth, in order), the scene *)
(* they are traced in, the divisor of the average and the gamma exponents  *)
(* applied; cls tells a Color object from a plain {r, g, b} object.        *)
(***************************************************************************)
Raytracer(scene, camera, width, height) ==
    [scene |-> scene, camera |-> camera, width |-> width, height |-> height,
     maxDepth |-> 10, samples |-> 1, useStratifiedSampling |-> TRUE,
     gammaCorrection |-> 22, randomSeed |-> 12345]

\* Math.pow(x, n) for a whole exponent n
RECURSIVE FPow(_, _)
FPow(x, n) ==
    IF n = 0 THEN FScale
    ELSE IF n % 2 = 0 THEN LET h == FPow(x, n \div 2) IN FMul(h, h)
    ELSE FMul(x, FPow(x, n - 1))

\* the shadow test of shade for one light: the shadow ray is built with the
\* bounds 0.001 and lightDistance - 0.001, and handed to scene.intersect
\* without them
ShadowHit(scene, point, light) ==
    LET toLight == VSub(light.position, point)
        lightDir == VNormalize(toLight)
        lightDistance == VLength(toLight)
        shadowRay == Ray(point, lightDir, TMin, lightDistance - TMin)
    IN  SceneIntersect(scene, shadowRay, TMin, Infinity)

\* the diffuse and the specular term of one light
LightTerms(hit, ray, light) ==
    LET material == hit.material
        lightDir == VNormalize(VSub(light.position, hit.point))
        ndotl == Max(0, VDot(hit.normal, lightDir))
        diffuse == ColorMultiply(ColorBlend(material.color, light.color),
                                 FMul(FMul(material.diffuse, ndotl), light.intensity))
        viewDir == VNormalize(VNegate(ray.direction))
        reflectDir == VReflect(VNegate(lightDir), hit.normal)
        spec == FPow(Max(0, VDot(viewDir, reflectDir)), material.shininess)
        specular == ColorMultiply(light.color,
                                  FMul(FMul(material.specular, spec), light.intensity))
    IN  <<diffuse, specular>>

\* the loop over the lights in shade, from light i on
RECURSIVE ShadeLights(_, _, _, _, _)
ShadeLights(scene, hit, ray, color, i) ==
    IF i > Len(scene.lights) THEN color
    ELSE IF ~ShadowHit(scene, hit.point, scene.lights[i]).hit
    THEN LET terms == LightTerms(hit, ray, scene.lights[i])
         IN  ShadeLights(scene, hit, ray, ColorAdd(ColorAdd(color, terms[1]), terms[2]), i + 1)
    ELSE ShadeLights(scene, hit, ray, color, i + 1)

RECURSIVE traceRay(_, _, _)

\* shade(hit, ray, depth)
shade(scene, hit, ray, depth) ==
    LET material == hit.material
        ambient == ColorAdd(Color(0, 0, 0), ColorMultiply(material.color, material.ambient))
        lit == ShadeLights(scene, hit, ray, ambient, 1)
    IN  IF material.reflectivity > 0 /\ depth > 1
        THEN LET reflectRay == Ray(hit.point, VReflect(ray.direction, hit.normal),
                                   TMin, Infinity)
             IN  ColorAdd(lit, ColorMultiply(traceRay(scene, reflectRay, depth - 1),
                                             material.reflectivity))
        ELSE lit

\* traceRay(ray, depth)
traceRay(scene, ray, depth) ==
    IF depth <= 0 THEN Color(0, 0, 0)
    ELSE LET hit == SceneIntersect(scene, ray, TMin, Infinity)
         IN  IF ~hit.hit THEN scene.backgroundColor ELSE shade(scene, hit, ray, depth)

\* a variant that follows a reflection whenever a call is left (depth > 0)
RECURSIVE TraceCalls_ReflectAtOne(_, _, _)
TraceCalls_ReflectAtOne(scene, ray, depth) ==
    IF depth <= 0 THEN <<[depth |-> depth, queried |-> FALSE, reflectivity |-> 0]>>
    ELSE LET hit == SceneIntersect(scene, ray, TMin, Infinity)
         IN  IF ~hit.hit THEN <<[depth |-> depth, queried |-> TRUE, reflectivity |-> 0]>>
             ELSE <<[depth |-> depth, queried |-> TRUE,
                     reflectivity |-> hit.material.reflectivity]>>
                  \o (IF hit.material.reflectivity > 0 /\ depth > 0
                      THEN TraceCalls_ReflectAtOne(
                               scene,
                               Ray(hit.point, VReflect(ray.direction, hit.normal),
                                   TMin, Infinity),
                               depth - 1)
                      ELSE <<>>)

\* the traceRay calls that traceRay(ray, depth) makes, itself first: for each
\* its depth, whether it queried the scene, and the reflectivity of what it hit
RECURSIVE TraceCalls(_, _, _)
TraceCalls(scene, ray, depth) ==
    IF depth <= 0 THEN <<[depth |-> depth, queried |-> FALSE, reflectivity |-> 0]>>
    ELSE LET hit == SceneIntersect(scene, ray, TMin, Infinity)
         IN  IF ~hit.hit THEN <<[depth |-> depth, queried |-> TRUE, reflectivity |-> 0]>>
             ELSE <<[depth |-> depth, queried |-> TRUE,
                     reflectivity |-> hit.material.reflectivity]>>
                  \o (IF hit.material.reflectivity > 0 /\ depth > 1
                      THEN TraceCalls(scene,
                                      Ray(hit.point, VReflect(ray.direction, hit.normal),
                                          TMin, Infinity),
                                      depth - 1)
                      ELSE <<>>)

\* a variant that rounds the square root down
CeilSqrt_Floor(n) == CHOOSE k \in 0..n : k * k <= n /\ (k + 1) * (k + 1) > n

\* Math.ceil(Math.sqrt(samples))
CeilSqrt(n) == CHOOSE k \in 0..n : k * k >= n /\ (k = 0 \/ (k - 1) * (k - 1) < n)

\* an offset inside the pixel: 0.5, (cell + random()) / k, or random()
Offset(kind, cell, k, r) == [kind |-> kind, cell |-> cell, k |-> k, r |-> r]

\* (p + offset) / n
Coord(p, off, n) == [p |-> p, off |-> off, n |-> n]

\* this.traceRay(ray, this.maxDepth)
Traced(ray, depth) == [ray |-> ray, depth |-> depth]

\* the stratified loop of renderPixel from cell i on (i = sy * k + sx)
RECURSIVE StratifiedLoop(_, _, _, _, _, _, _)
StratifiedLoop(r, x, y, k, i, rnd, acc) ==
    IF i >= k * k THEN [traced |-> acc, rnd |-> rnd]
    ELSE LET sy == i \div k
             sx == i % k
             r1 == RandomCall(rnd)
             r2 == RandomCall(r1)
             u == Coord(x, Offset("stratified", sx, k, r1.ret), r.width)
             v == Coord(y, Offset("stratified", sy, k, r2.ret), r.height)
         IN  StratifiedLoop(r, x, y, k, i + 1, r2,
                            Append(acc, Traced(getRay(r.camera, u, v), r.maxDepth)))

\* the random-sampling loop of renderPixel from sample s on
RECURSIVE RandomLoop(_, _, _, _, _, _)
RandomLoop(r, x, y, s, rnd, acc) ==
    IF s >= r.samples THEN [traced |-> acc, rnd |-> rnd]
    ELSE LET r1 == RandomCall(rnd)
             r2 == RandomCall(r1)
             u == Coord(x, Offset("random", 0, 1, r1.ret), r.width)
             v == Coord(y, Offset("random", 0, 1, r2.ret), r.height)
         IN  RandomLoop(r, x, y, s + 1, r2,
                        Append(acc, Traced(getRay(r.camera, u, v), r.maxDepth)))

PixelColor(r, seed, loop, div) ==
    [cls |-> "Color", seed |-> seed, scene |-> r.scene, traced |-> loop.traced,
     div |-> div, gamma |-> <<>>, draws |-> loop.rnd.calls]

renderPixel(r, x, y) ==
    LET pixelRandom == createPixelRandom(r.randomSeed, x, y, r.width, r.height)
        seed == getPixelSeed(r.randomSeed, x, y, r.width, r.height)
        center == Offset("center", 0, 1, ToState(0))
    IN  IF r.samples = 1
        THEN PixelColor(r, seed,
                 [traced |-> <<Traced(getRay(r.camera, Coord(x, center, r.width),
                                             Coord(y, center, r.height)), r.maxDepth)>>,
                  rnd |-> pixelRandom], 1)
        ELSE IF r.useStratifiedSampling
        THEN LET sqrtSamples == CeilSqrt(r.samples)
                 actualSamples == sqrtSamples * sqrtSamples
             IN  PixelColor(r, seed,
                     StratifiedLoop(r, x, y, sqrtSamples, 0, pixelRandom, <<>>),
                     actualSamples)
        ELSE PixelColor(r, seed, RandomLoop(r, x, y, 0, pixelRandom, <<>>), r.samples)

\* a variant that corrects a corrected colour again
GammaCorrect_Twice(pixelColor, gammaCorrection) ==
    IF gammaCorrection # 10
    THEN [pixelColor EXCEPT !.cls = "Color",
                            !.gamma = Append(Append(@, gammaCorrection), gammaCorrection)]
    ELSE pixelColor

\* the gamma step of both render loops: new Color(pow(c, 1 / gamma)) unless gamma is 1.0
\* (gamma is kept in tenths: 10 is 1.0, 22 is 2.2)
GammaCorrect(pixelColor, gammaCorrection) ==
    IF gammaCorrection # 10
    THEN [pixelColor EXCEPT !.cls = "Color", !.gamma = Append(@, gammaCorrection)]
    ELSE pixelColor

\* Raytracer.render(): rows j = height-1 .. 0, pixels i = 0 .. width-1
RaytracerRender(r) ==
    [k \in 1..r.height |->
        [i \in 1..r.width |->
            GammaCorrect(renderPixel(r, i - 1, r.height - k), r.gammaCorrection)]]

(***************************************************************************)
(* render-worker.js                                                        *)
(***************************************************************************)
\* variants: the row counted inside the tile, and rows rendered bottom-up
TileRowY_Local(tileConfig, k) == tileConfig.height - k
TileRowY_Ascending(tileConfig, k) == tileConfig.startY + k - 1

\* the row index renderTile passes to renderPixel for the k-th row of a tile
TileRowY(tileConfig, k) == tileConfig.endY - k

\* renderTile(raytracer, tileConfig): rows j = endY-1 .. startY, plain pixels
renderTile(raytracer, tileConfig) ==
    [k \in 1..(tileConfig.endY - tileConfig.startY) |->
        [i \in 1..tileConfig.width |->
            [GammaCorrect(renderPixel(raytracer, i - 1, TileRowY(tileConfig, k)),
                          raytracer.gammaCorrection) EXCEPT !.cls = "Object"]]]

\* the Raytracer the worker builds from the message
WorkerRaytracer(data) ==
    [Raytracer(reconstructScene(data.sceneData), reconstructCamera(data.cameraData),
               data.renderConfig.width, data.renderConfig.height)
        EXCEPT !.samples = data.renderConfig.samples,
               !.maxDepth = data.renderConfig.maxDepth,
               !.useStratifiedSampling = data.renderConfig.useStratifiedSampling,
               !.gammaCorrection = data.renderConfig.gammaCorrection,
               !.randomSeed = data.tileConfig.seed]

\* the message posted when the task succeeds, and when it throws
SuccessMessage(data) ==
    [success |-> TRUE, tileId |-> data.tileConfig.tileId,
     tileImage |-> renderTile(WorkerRaytracer(data), data.tileConfig),
     startY |-> data.tileConfig.startY, endY |-> data.tileConfig.endY]

FailureMessage(data) ==
    [success |-> FALSE, error |-> "error", tileId |-> data.tileConfig.tileId]

(***************************************************************************)
(* MultiThreadedRaytracer (multi-threaded-raytracer.js)                    *)
(***************************************************************************)
\* cpus().length of the machine of the model
NumCpus == MaxThreads

MultiThreadedRaytracer(scene, camera, width, height) ==
    [scene |-> scene, camera |-> camera, width |-> width, height |-> height,
     maxDepth |-> 10, samples |-> 1, useStratifiedSampling |-> TRUE,
     gammaCorrection |-> 22, numThreads |-> NumCpus, randomSeed |-> 12345]

\* a variant that rounds the quotient down
CeilDiv_Floor(a, b) == a \div b

\* Math.ceil(a / b) for integers a >= 0, b >= 1
CeilDiv(a, b) == (a + b - 1) \div b

renderConfig(m) ==
    [width |-> m.width, height |-> m.height, samples |-> m.samples,
     maxDepth |-> m.maxDepth, useStratifiedSampling |-> m.useStratifiedSampling,
     gammaCorrection |-> m.gammaCorrection, randomSeed |-> m.randomSeed]

\* the tile of loop index i
TileAt(m, i) ==
    LET tilesPerThread == CeilDiv(m.height, m.numThreads)
        startY == i * tilesPerThread
        endY == Min((i + 1) * tilesPerThread, m.height)
    IN  [tileId |-> i, startY |-> startY, endY |-> endY, width |-> m.width,
         height |-> endY - startY, fullWidth |-> m.width, fullHeight |-> m.height,
         seed |-> m.randomSeed]

\* a variant that keeps empty tiles
TileKept_Always(tile) == TRUE

\* if (startY < endY)
TileKept(tile) == tile.startY < tile.endY

\* the tiles array of render()
MakeTiles(m) ==
    SelectSeq([i \in 1..m.numThreads |-> TileAt(m, i - 1)], TileKept)

\* worker.postMessage({sceneData, cameraData, renderConfig, tileConfig})
WorkerMessage(m, tile) ==
    [sceneData |-> serializeScene(m.scene), cameraData |-> serializeCamera(m.camera),
     renderConfig |-> renderConfig(m), tileConfig |-> tile]

\* tileResults.sort((a, b) => b.startY - a.startY): a stable sort
RECURSIVE InsertByStartY(_, _)
InsertByStartY(x, sorted) ==
    IF sorted = <<>> THEN <<x>>
    ELSE IF Head(sorted).startY - x.startY < 0
         THEN <<x>> \o sorted
         ELSE <<Head(sorted)>> \o InsertByStartY(x, Tail(sorted))

\* a variant that leaves the results in the order given
SortTiles_None(tileResults) == tileResults

RECURSIVE SortTiles(_)
SortTiles(tileResults) ==
    IF tileResults = <<>> THEN <<>>
    ELSE InsertByStartY(tileResults[Len(tileResults)],
                        SortTiles(SubSeq(tileResults, 1, Len(tileResults) - 1)))

\* row.map(pixel => new Color(pixel.r, pixel.g, pixel.b))
ColorRow(row) == [i \in 1..Len(row) |-> [row[i] EXCEPT !.cls = "Color"]]

\* combineTiles(tileResults): the rows of the tiles, in the order of the sorted
\* array (sorted ranges over the one value of the sort)
combineTiles(tileResults) ==
    CHOOSE finalImage \in
        {Concat([t \in 1..Len(sorted) |->
                    [k \in 1..Len(sorted[t].tileImage) |->
                        ColorRow(sorted[t].tileImage[k])]]) :
            sorted \in {SortTiles(tileResults)}} : TRUE

(***************************************************************************)
(* Promises.  A promise settles once; Promise.all rejects as soon as one   *)
(* input is rejected and fulfils, with the values in input order, when all *)
(* inputs are fulfilled.  The reactions run before the next event.         *)
(***************************************************************************)
Pending == [state |-> "pending", value |-> <<>>]

\* a variant in which a later resolve or reject replaces the outcome
Settled_Overwrite(p, t, state, value) ==
    [p EXCEPT ![t] = [state |-> state, value |-> value]]

\* resolve and reject act on a pending promise only
Settled(p, t, state, value) ==
    IF p[t].state = "pending" THEN [p EXCEPT ![t] = [state |-> state, value |-> value]]
    ELSE p

\* a variant that does not wait for pending promises
AllFulfilled_NoneRejected(p) == \A t \in DOMAIN p : p[t].state # "rejected"

\* whether Promise.all(promises) is fulfilled
AllFulfilled(p) == \A t \in DOMAIN p : p[t].state = "fulfilled"

\* a variant that swallows rejections
PromiseAll_NeverRejects(p) ==
    IF \A t \in DOMAIN p : p[t].state = "fulfilled" THEN "fulfilled" ELSE "pending"

PromiseAll(p) ==
    IF \E t \in DOMAIN p : p[t].state = "rejected" THEN "rejected"
    ELSE IF AllFulfilled(p) THEN "fulfilled"
    ELSE "pending"

\* const results = await Promise.all(promises); return this.combineTiles(results)
Await(p) ==
    IF render # "pending" THEN UNCHANGED <<render, image>>
    ELSE IF PromiseAll(p) = "rejected" THEN render' = "rejected" /\ image' = image
    ELSE IF PromiseAll(p) = "fulfilled"
         THEN /\ render' = "resolved"
              /\ image' = combineTiles([t \in DOMAIN p |-> p[t].value])
    ELSE UNCHANGED <<render, image>>

Settle(t, state, value) ==
    LET p == Settled(promise, t, state, value)
    IN  /\ promise' = p
        /\ arrival' = IF promise[t].state = "pending" /\ state = "fulfilled"
                       THEN Append(arrival, t) ELSE arrival
        /\ Await(p)

Event(type, result, code) == [type |-> type, result |-> result, code |-> code]

\* worker.terminate(): a live thread stops and emits 'exit' with code 1
Terminate(t, rest) ==
    IF worker[t] # "exited"
    THEN /\ worker' = [worker EXCEPT ![t] = "exited"]
         /\ events' = [events EXCEPT ![t] = Append(rest, Event("exit", <<>>, 1))]
    ELSE /\ worker' = worker
         /\ events' = [events EXCEPT ![t] = rest]

(***************************************************************************)
(* The inputs of the model.                                                *)
(***************************************************************************)
Red == Material(Color(819, 205, 205), 102, 717, 205, 32, 0)
Mirror == Material(Color(512, 512, 512), 102, 717, 205, 32, 512)

SphereScene ==
    Scene(<<Sphere(Vec3(0, 0, -1), FScale \div 2, Red)>>,
          <<Light(Vec3(2, 2, 0), Color(FScale, FScale, FScale), FScale)>>,
          Color(512, 717, FScale))

PlaneScene ==
    Scene(<<Plane(Vec3(0, -1, 0), Vec3(1, 2, 2), Mirror),
            Triangle(Vec3(0, 0, -2), Vec3(1, 0, -2), Vec3(0, 1, -2), Red)>>,
          <<Light(Vec3(2, 2, 0), Color(FScale, FScale, FScale), FScale)>>,
          Color(102, 102, 205))

AxisCamera == Camera(Vec3(0, 0, 0), Vec3(0, 0, -1), Vec3(0, 1, 0), 90, FScale)
ObliqueCamera == Camera(Vec3(1, 2, 3), Vec3(0, 0, -1), Vec3(0, 1, 0), 45, FScale)

Worlds == {<<SphereScene, AxisCamera>>, <<PlaneScene, ObliqueCamera>>}

Profiles ==
    {[samples |-> 1, useStratifiedSampling |-> TRUE, gammaCorrection |-> 22, randomSeed |-> 12345],
     [samples |-> 2, useStratifiedSampling |-> TRUE, gammaCorrection |-> 10, randomSeed |-> 42],
     [samples |-> 2, useStratifiedSampling |-> FALSE, gammaCorrection |-> 22, randomSeed |-> 42]}

Configure(r, c) ==
    [r EXCEPT !.samples = c.samples, !.useStratifiedSampling = c.useStratifiedSampling,
              !.gammaCorrection = c.gammaCorrection, !.randomSeed = c.randomSeed]

NoPixel == [cls |-> "none"]
NoCall == [fn |-> "none"]

(***************************************************************************)
(* Spec: a reference render with the single-threaded Raytracer, then a     *)
(* render with the MultiThreadedRaytracer configured the same way.         *)
(***************************************************************************)
Init ==
    \E w \in Worlds, width \in {MaxWidth}, height \in 1..MaxHeight,
       c \in Profiles, n \in 1..MaxThreads :
        /\ st = Configure(Raytracer(w[1], w[2], width, height), c)
        /\ mt = [Configure(MultiThreadedRaytracer(w[1], w[2], width, height), c)
                    EXCEPT !.numThreads = n]
        /\ rng = NewRandom(1)
        /\ px = NoPixel
        /\ stImage = <<>>
        /\ stDone = FALSE
        /\ tiles = <<>>
        /\ sent = <<>>
        /\ started = <<>>
        /\ worker = <<>>
        /\ events = <<>>
        /\ promise = <<>>
        /\ arrival = <<>>
        /\ render = "idle"
        /\ image = <<>>
        /\ call = NoCall

\* Raytracer.render()
RenderSingle ==
    /\ ~stDone
    /\ rng' = SetSeed(rng, st.randomSeed)
    /\ stImage' = RaytracerRender(st)
    /\ stDone' = TRUE
    /\ UNCHANGED <<call, st, mt, px, tiles, sent, started, worker, events, promise,
                   arrival, render, image>>

\* MultiThreadedRaytracer.render() up to the await: the tiles, one worker and one
\* message per tile
StartRender ==
    /\ stDone
    /\ render = "idle"
    /\ LET ts == MakeTiles(mt)
           p == [t \in 1..Len(ts) |-> Pending]
       IN  /\ tiles' = ts
           /\ sent' = [t \in 1..Len(ts) |-> WorkerMessage(mt, ts[t])]
           /\ started' = [t \in 1..Len(ts) |-> 1]
           /\ worker' = [t \in 1..Len(ts) |-> "working"]
           /\ events' = [t \in 1..Len(ts) |-> <<>>]
           /\ promise' = p
           /\ IF AllFulfilled(p)
              THEN render' = "resolved" /\ image' = combineTiles(<<>>)
              ELSE render' = "pending" /\ image' = image
    /\ UNCHANGED <<call, rng, st, mt, px, stImage, stDone, arrival>>

\* the worker's message handler runs to its postMessage
WorkerRender(t) ==
    /\ worker[t] = "working"
    /\ worker' = [worker EXCEPT ![t] = "idle"]
    /\ events' = [events EXCEPT ![t] = Append(@, Event("message", SuccessMessage(sent[t]), 0))]
    /\ UNCHANGED <<call, rng, st, mt, px, stImage, stDone, tiles, sent, started, promise,
                   arrival, render, image>>

\* the task throws: the catch block posts the failure
WorkerThrow(t) ==
    /\ worker[t] = "working"
    /\ worker' = [worker EXCEPT ![t] = "idle"]
    /\ events' = [events EXCEPT ![t] = Append(@, Event("message", FailureMessage(sent[t]), 0))]
    /\ UNCHANGED <<call, rng, st, mt, px, stImage, stDone, tiles, sent, started, promise,
                   arrival, render, image>>

\* an uncaught error in the worker thread: 'error', then 'exit' with code 1
WorkerCrash(t) ==
    /\ worker[t] = "working"
    /\ worker' = [worker EXCEPT ![t] = "exited"]
    /\ events' = [events EXCEPT ![t] = @ \o <<Event("error", <<>>, 0), Event("exit", <<>>, 1)>>]
    /\ UNCHANGED <<call, rng, st, mt, px, stImage, stDone, tiles, sent, started, promise,
                   arrival, render, image>>

\* the worker thread stops by itself before posting anything: 'exit' with its code
WorkerExit(t, code) ==
    /\ worker[t] = "working"
    /\ worker' = [worker EXCEPT ![t] = "exited"]
    /\ events' = [events EXCEPT ![t] = Append(@, Event("exit", <<>>, code))]
    /\ UNCHANGED <<call, rng, st, mt, px, stImage, stDone, tiles, sent, started, promise,
                   arrival, render, image>>

\* worker.on('message', ...)
OnMessage(t) ==
    /\ events[t] # <<>>
    /\ Head(events[t]).type = "message"
    /\ Terminate(t, Tail(events[t]))
    /\ IF Head(events[t]).result.success
       THEN Settle(t, "fulfilled", Head(events[t]).result)
       ELSE Settle(t, "rejected", <<>>)
    /\ UNCHANGED <<call, rng, st, mt, px, stImage, stDone, tiles, sent, started>>

\* worker.on('error', ...)
OnError(t) ==
    /\ events[t] # <<>>
    /\ Head(events[t]).type = "error"
    /\ Terminate(t, Tail(events[t]))
    /\ Settle(t, "rejected", <<>>)
    /\ UNCHANGED <<call, rng, st, mt, px, stImage, stDone, tiles, sent, started>>

\* worker.on('exit', ...)
OnExit(t) ==
    /\ events[t] # <<>>
    /\ Head(events[t]).type = "exit"
    /\ events' = [events EXCEPT ![t] = Tail(@)]
    /\ IF Head(events[t]).code # 0
       THEN Settle(t, "rejected", <<>>)
       ELSE UNCHANGED <<promise, arrival, render, image>>
    /\ UNCHANGED <<call, rng, st, mt, px, stImage, stDone, tiles, sent, started, worker>>

Next ==
    \/ RenderSingle
    \/ StartRender
    \/ \E t \in DOMAIN worker : WorkerRender(t)
    \/ \E t \in DOMAIN worker : WorkerThrow(t)
    \/ \E t \in DOMAIN worker : WorkerCrash(t)
    \/ \E t \in DOMAIN worker : \E code \in {0, 1} : WorkerExit(t, code)
    \/ \E t \in DOMAIN worker : OnMessage(t)
    \/ \E t \in DOMAIN worker : OnError(t)
    \/ \E t \in DOMAIN worker : OnExit(t)

Spec == Init /\ [][Next]_vars

(***************************************************************************)
(* SpecLive: the multi-threaded render of a small image with the event     *)
(* loop's scheduling.  Node runs the handler of every event it has queued, *)
(* and the program calls both render methods; a worker thread is under no  *)
(* obligation to post, fail or exit.                                       *)
(***************************************************************************)
MaxStrips == 3

InitLive ==
    /\ Init
    /\ st.scene = SphereScene
    /\ st.width = MaxWidth /\ st.height <= MaxStrips
    /\ st.samples = 1
    /\ mt.numThreads <= MaxStrips

Fairness ==
    /\ WF_vars(RenderSingle)
    /\ WF_vars(StartRender)
    /\ \A t \in 1..MaxStrips :
          /\ WF_vars(t \in DOMAIN worker /\ OnMessage(t))
          /\ WF_vars(t \in DOMAIN worker /\ OnError(t))
          /\ WF_vars(t \in DOMAIN worker /\ OnExit(t))

SpecLive == InitLive /\ [][Next]_vars /\ Fairness

(***************************************************************************)
(* SpecRng: one SeededRandom instance, seeded by its constructor or by     *)
(* setSeed, and advanced by random().                                      *)
(***************************************************************************)
Seeds == {100 * k : k \in (0 - MaxSeed)..MaxSeed}

IdleRender ==
    /\ st = Raytracer(SphereScene, AxisCamera, 1, 1)
    /\ mt = MultiThreadedRaytracer(SphereScene, AxisCamera, 1, 1)
    /\ stImage = <<>>
    /\ stDone = FALSE
    /\ tiles = <<>>
    /\ sent = <<>>
    /\ started = <<>>
    /\ worker = <<>>
    /\ events = <<>>
    /\ promise = <<>>
    /\ arrival = <<>>
    /\ render = "idle"
    /\ image = <<>>
    /\ call = NoCall

InitRng ==
    /\ \E seed \in Seeds : rng = NewRandom(seed)
    /\ px = NoPixel
    /\ IdleRender

\* random()
CallRandom ==
    /\ rng.calls < MaxCalls
    /\ rng' = RandomCall(rng)
    /\ UNCHANGED <<call, st, mt, px, stImage, stDone, tiles, sent, started, worker,
                   events, promise, arrival, render, image>>

\* setSeed(seed)
CallSetSeed ==
    /\ rng.op = "random"
    /\ \E seed \in Seeds : rng' = SetSeed(rng, seed)
    /\ UNCHANGED <<call, st, mt, px, stImage, stDone, tiles, sent, started, worker,
                   events, promise, arrival, render, image>>

NextRng == CallRandom \/ CallSetSeed

SpecRng == InitRng /\ [][NextRng]_vars

(***************************************************************************)
(* SpecPixel: renderPixel called directly on a configured Raytracer.       *)
(***************************************************************************)
InitPixel ==
    /\ \E w \in Worlds, width \in 1..MaxWidth, height \in 1..MaxHeight,
          samples \in 1..MaxSamples, stratified \in BOOLEAN, seed \in {42, 12345} :
          st = [Raytracer(w[1], w[2], width, height)
                   EXCEPT !.samples = samples, !.useStratifiedSampling = stratified,
                          !.randomSeed = seed]
    /\ mt = MultiThreadedRaytracer(SphereScene, AxisCamera, 1, 1)
    /\ rng = NewRandom(1)
    /\ px = NoPixel
    /\ stImage = <<>>
    /\ stDone = FALSE
    /\ tiles = <<>>
    /\ sent = <<>>
    /\ started = <<>>
    /\ worker = <<>>
    /\ events = <<>>
    /\ promise = <<>>
    /\ arrival = <<>>
    /\ render = "idle"
    /\ image = <<>>
    /\ call = NoCall

\* renderPixel(x, y)
CallRenderPixel ==
    /\ \E x \in 0..(st.width - 1), y \in 0..(st.height - 1) : px' = renderPixel(st, x, y)
    /\ UNCHANGED <<call, rng, st, mt, stImage, stDone, tiles, sent, started, worker,
                   events, promise, arrival, render, image>>

\* renderPixel calls in any order, with calls of the global random() in between
NextPixel == CallRenderPixel \/ CallRandom

SpecPixel == InitPixel /\ [][NextPixel]_vars

(***************************************************************************)
(* SpecGeom: direct calls of the intersect methods, of Scene.intersect and *)
(* of shade, on small scenes whose coordinates are multiples of one half.  *)
(* A behaviour is one call on fresh arguments.                             *)
(***************************************************************************)
MaxCoord == 2

Half == FScale \div 2
Grid == {k * Half : k \in 0..MaxCoord}
White == Color(FScale, FScale, FScale)

\* two triangles of the unit square in the plane z = 0 that share the edge
\* from (1, 0, 0) to (0, 1, 0)
EdgeT1 == Triangle(Vec3(0, 0, 0), Vec3(1, 0, 0), Vec3(0, 1, 0), Red)
EdgeT2 == Triangle(Vec3(1, 0, 0), Vec3(1, 1, 0), Vec3(0, 1, 0), Mirror)

\* EdgeT1 with its vertices in the other order: the normal is (0, 0, -1)
Clockwise == Triangle(Vec3(0, 0, 0), Vec3(0, 1, 0), Vec3(1, 0, 0), Red)

\* planes across the z axis with either orientation, a tilted plane, and the
\* floor, which no ray along z meets
Planes ==
    {Plane(Vec3(0, 0, 1), Vec3(0, 0, 1), Red), Plane(Vec3(0, 0, 1), Vec3(0, 0, -1), Red),
     Plane(Vec3(0, 0, 1), Vec3(0, 1, 1), Red), Plane(Vec3(0, 0, 0), Vec3(0, 1, 0), Red)}

UnitSphere == Sphere(Vec3(0, 0, 0), FScale, Red)
Spheres == {Sphere(<<cx, 0, 0>>, r, Red) : cx \in Grid, r \in {Half, FScale}}

Floor == Plane(Vec3(0, 0, 0), Vec3(0, 1, 0), Red)
Lamp == Light(Vec3(0, 2, 0), White, FScale)
Beyond == Sphere(Vec3(0, 4, 0), FScale, Red)
Between == Sphere(Vec3(0, 1, 0), Half \div 2, Red)

\* rays along the z axis, towards -z and towards +z, and rays straight down
ZRays ==
    {Ray(<<x, y, z>>, d, TMin, Infinity) :
        x \in Grid, y \in Grid, z \in {0, FScale, 2 * FScale},
        d \in {Vec3(0, 0, -1), Vec3(0, 0, 1)}}
DownRays == {Ray(<<x, FScale, 0>>, Vec3(0, -1, 0), TMin, Infinity) : x \in Grid}

Intervals ==
    {<<TMin, Infinity>>, <<TMin, FScale + Half>>, <<2 * FScale, Infinity>>,
     <<FScale, 3 * FScale>>}

\* the object lists of the scenes: every order of one to three of these objects
Pool == {EdgeT1, EdgeT2, Sphere(Vec3(0, 0, -1), FScale, Red)}
ObjectLists ==
    {<<a>> : a \in Pool}
    \cup {s \in Pool \X Pool : s[1] # s[2]}
    \cup {s \in Pool \X Pool \X Pool : s[1] # s[2] /\ s[1] # s[3] /\ s[2] # s[3]}

ShadeScenes ==
    {Scene(<<Floor>>, <<Lamp>>, White), Scene(<<Floor, Beyond>>, <<Lamp>>, White),
     Scene(<<Floor, Between>>, <<Lamp>>, White)}

\* no renderer is running and no method has been called yet
InitCall ==
    /\ rng = NewRandom(1)
    /\ px = NoPixel
    /\ IdleRender

\* sphere.intersect(ray, tMin, tMax, hitRecord)
CallSphereIntersect ==
    /\ call = NoCall
    /\ \E sphere \in Spheres, ray \in ZRays, iv \in Intervals :
          call' = [fn |-> "Sphere.intersect", object |-> sphere, ray |-> ray,
                   tMin |-> iv[1], tMax |-> iv[2],
                   ret |-> SphereIntersect(sphere, ray, iv[1], iv[2])]
    /\ UNCHANGED <<rng, st, mt, px, stImage, stDone, tiles, sent, started, worker,
                   events, promise, arrival, render, image>>

\* triangle.intersect(ray, tMin, tMax, hitRecord)
CallTriangleIntersect ==
    /\ call = NoCall
    /\ \E triangle \in {EdgeT1, EdgeT2, Clockwise}, ray \in ZRays, iv \in Intervals :
          call' = [fn |-> "Triangle.intersect", object |-> triangle, ray |-> ray,
                   tMin |-> iv[1], tMax |-> iv[2],
                   ret |-> TriangleIntersect(triangle, ray, iv[1], iv[2])]
    /\ UNCHANGED <<rng, st, mt, px, stImage, stDone, tiles, sent, started, worker,
                   events, promise, arrival, render, image>>

\* plane.intersect(ray, tMin, tMax, hitRecord)
CallPlaneIntersect ==
    /\ call = NoCall
    /\ \E plane \in Planes, ray \in ZRays, iv \in Intervals :
          call' = [fn |-> "Plane.intersect", object |-> plane, ray |-> ray,
                   tMin |-> iv[1], tMax |-> iv[2],
                   ret |-> PlaneIntersect(plane, ray, iv[1], iv[2])]
    /\ UNCHANGED <<rng, st, mt, px, stImage, stDone, tiles, sent, started, worker,
                   events, promise, arrival, render, image>>

\* scene.intersect(ray, tMin, tMax)
CallSceneIntersect ==
    /\ call = NoCall
    /\ \E objects \in ObjectLists, ray \in ZRays, iv \in Intervals :
          LET scene == Scene(objects, <<Lamp>>, White)
          IN  call' = [fn |-> "Scene.intersect", scene |-> scene, ray |-> ray,
                       tMin |-> iv[1], tMax |-> iv[2],
                       ret |-> SceneIntersect(scene, ray, iv[1], iv[2])]
    /\ UNCHANGED <<rng, st, mt, px, stImage, stDone, tiles, sent, started, worker,
                   events, promise, arrival, render, image>>

\* traceRay(ray, depth) up to and including its call of shade(hit, ray, depth)
CallShade ==
    /\ call = NoCall
    /\ \E scene \in ShadeScenes, ray \in DownRays :
          LET hit == SceneIntersect(scene, ray, TMin, Infinity)
          IN  /\ hit.hit
              /\ call' = [fn |-> "shade", scene |-> scene, hit |-> hit, ray |-> ray,
                          depth |-> 10,
                          shadowed |-> [i \in 1..Len(scene.lights) |->
                                           ShadowHit(scene, hit.point, scene.lights[i]).hit],
                          ret |-> shade(scene, hit, ray, 10)]
    /\ UNCHANGED <<rng, st, mt, px, stImage, stDone, tiles, sent, started, worker,
                   events, promise, arrival, render, image>>

MaxDepth == 4

\* two mirrors facing each other, the planes y = -1 and y = 1
MirrorHall ==
    Scene(<<Plane(Vec3(0, -1, 0), Vec3(0, 1, 0), Mirror),
            Plane(Vec3(0, 1, 0), Vec3(0, -1, 0), Mirror)>>,
          <<Light(Vec3(0, 0, 0), White, FScale)>>, White)

\* traceRay(ray, depth)
CallTraceRay ==
    /\ call = NoCall
    /\ \E scene \in ShadeScenes \cup {MirrorHall, Scene(<<>>, <<Lamp>>, White)},
          ray \in DownRays, depth \in (0 - 1)..MaxDepth :
          call' = [fn |-> "traceRay", scene |-> scene, ray |-> ray, depth |-> depth,
                   calls |-> TraceCalls(scene, ray, depth),
                   ret |-> traceRay(scene, ray, depth)]
    /\ UNCHANGED <<rng, st, mt, px, stImage, stDone, tiles, sent, started, worker,
                   events, promise, arrival, render, image>>

NextGeom ==
    \/ CallSphereIntersect \/ CallTriangleIntersect \/ CallSceneIntersect \/ CallShade
    \/ CallTraceRay \/ CallPlaneIntersect

SpecGeom == InitCall /\ [][NextGeom]_vars

(***************************************************************************)
(* SpecColor: a Color is constructed and then combined by add, multiply    *)
(* and blend, averaged over a sample count as renderPixel does, gamma      *)
(* corrected as the render loops do, and rebuilt as combineTiles does.     *)
(***************************************************************************)
MaxOps == 2

Channels == {0 - FScale, 0, Half, FScale, 2 * FScale}
Operands == {Color(0, 0, 0), Color(Half, FScale, 0), White}
Scalars == {0 - FScale, Half, 2 * FScale}

\* Math.pow(c, 1 / gamma) for gamma = 2.0
PowHalf(c) == IF c = NaN THEN NaN ELSE FSqrt(c)

ColorCall(fn, ret) ==
    [fn |-> fn, ret |-> ret, ops |-> IF call = NoCall THEN 0 ELSE call.ops + 1]

\* new Color(r, g, b)
CallColor ==
    /\ call = NoCall
    /\ \E r \in Channels, g \in Channels, b \in Channels :
          call' = ColorCall("Color", Color(r, g, b))
    /\ UNCHANGED <<rng, st, mt, px, stImage, stDone, tiles, sent, started, worker,
                   events, promise, arrival, render, image>>

\* color.add(other)
CallColorAdd ==
    /\ call # NoCall /\ call.ops < MaxOps
    /\ \E other \in Operands : call' = ColorCall("Color.add", ColorAdd(call.ret, other))
    /\ UNCHANGED <<rng, st, mt, px, stImage, stDone, tiles, sent, started, worker,
                   events, promise, arrival, render, image>>

\* color.multiply(scalar)
CallColorMultiply ==
    /\ call # NoCall /\ call.ops < MaxOps
    /\ \E scalar \in Scalars :
          call' = ColorCall("Color.multiply", ColorMultiply(call.ret, scalar))
    /\ UNCHANGED <<rng, st, mt, px, stImage, stDone, tiles, sent, started, worker,
                   events, promise, arrival, render, image>>

\* color.blend(other)
CallColorBlend ==
    /\ call # NoCall /\ call.ops < MaxOps
    /\ \E other \in Operands : call' = ColorCall("Color.blend", ColorBlend(call.ret, other))
    /\ UNCHANGED <<rng, st, mt, px, stImage, stDone, tiles, sent, started, worker,
                   events, promise, arrival, render, image>>

\* renderPixel's average: pixelColor.multiply(1.0 / n) for the sample count n
CallAverage ==
    /\ call # NoCall /\ call.ops < MaxOps
    /\ \E n \in 0..MaxSamples :
          call' = ColorCall("average", ColorMultiply(call.ret, Reciprocal(n)))
    /\ UNCHANGED <<rng, st, mt, px, stImage, stDone, tiles, sent, started, worker,
                   events, promise, arrival, render, image>>

\* the gamma step of the render loops, for gamma = 2.0
CallGamma ==
    /\ call # NoCall /\ call.ops < MaxOps
    /\ call' = ColorCall("gamma", Color(PowHalf(call.ret.r), PowHalf(call.ret.g),
                                        PowHalf(call.ret.b)))
    /\ UNCHANGED <<rng, st, mt, px, stImage, stDone, tiles, sent, started, worker,
                   events, promise, arrival, render, image>>

\* combineTiles: new Color(pixel.r, pixel.g, pixel.b)
CallRebuild ==
    /\ call # NoCall /\ call.ops < MaxOps
    /\ call' = ColorCall("rebuild", Color(call.ret.r, call.ret.g, call.ret.b))
    /\ UNCHANGED <<rng, st, mt, px, stImage, stDone, tiles, sent, started, worker,
                   events, promise, arrival, render, image>>

NextColor ==
    \/ CallColor \/ CallColorAdd \/ CallColorMultiply \/ CallColorBlend
    \/ CallAverage \/ CallGamma \/ CallRebuild

SpecColor == InitCall /\ [][NextColor]_vars

(***************************************************************************)
(* SpecConfig: the setters of one renderer object (a Raytracer or a        *)
(* MultiThreadedRaytracer) called in any order, and the choice of renderer *)
(* and thread count RenderApp.render makes.                                *)
(***************************************************************************)
Qualities ==
    {"none", "low", "medium", "high", "ultra", "NONE", "Low", "MEDIUM", "High", "ULTRA",
     "best"}

\* quality.toLowerCase() on the strings of the model
ToLowerCase(quality) ==
    CASE quality = "NONE" -> "none"
      [] quality = "Low" -> "low"
      [] quality = "MEDIUM" -> "medium"
      [] quality = "High" -> "high"
      [] quality = "ULTRA" -> "ultra"
      [] OTHER -> quality


\* Raytracer.setAntialiasingQuality: an unknown quality is set as 'medium'
setAntialiasingQuality(r, quality) ==
    LET q == ToLowerCase(quality)
    IN  CASE q = "none" -> [r EXCEPT !.samples = 1]
          [] q = "low" -> [r EXCEPT !.samples = 4, !.useStratifiedSampling = TRUE]
          [] q = "medium" -> [r EXCEPT !.samples = 9, !.useStratifiedSampling = TRUE]
          [] q = "high" -> [r EXCEPT !.samples = 16, !.useStratifiedSampling = TRUE]
          [] q = "ultra" -> [r EXCEPT !.samples = 25, !.useStratifiedSampling = TRUE]
          [] OTHER -> [r EXCEPT !.samples = 9, !.useStratifiedSampling = TRUE]

\* MultiThreadedRaytracer.setAntialiasingQuality
MTsetAntialiasingQuality(r, quality) ==
    LET q == ToLowerCase(quality)
    IN  CASE q = "none" -> [r EXCEPT !.samples = 1]
          [] q = "low" -> [r EXCEPT !.samples = 4, !.useStratifiedSampling = TRUE]
          [] q = "medium" -> [r EXCEPT !.samples = 9, !.useStratifiedSampling = TRUE]
          [] q = "high" -> [r EXCEPT !.samples = 16, !.useStratifiedSampling = TRUE]
          [] q = "ultra" -> [r EXCEPT !.samples = 25, !.useStratifiedSampling = TRUE]
          [] OTHER -> [r EXCEPT !.samples = 9, !.useStratifiedSampling = TRUE]

\* a variant without the upper bound
setNumThreads_NoCap(r, numThreads) ==
    [r EXCEPT !.numThreads = Max(1, numThreads)]

\* setNumThreads: Math.max(1, Math.min(numThreads, cpus().length))
setNumThreads(r, numThreads) ==
    [r EXCEPT !.numThreads = Max(1, Min(numThreads, NumCpus))]

\* RenderApp.render: numThreads || availableCpus (0 and null are falsy)
ActualThreads(numThreads) == IF numThreads = 0 THEN NumCpus ELSE numThreads

\* RenderApp.render: the multi-threaded renderer is used when asked for and
\* the thread count is above 1
UsesMultiThreading(useMultiThreading, numThreads) ==
    useMultiThreading /\ ActualThreads(numThreads) > 1

Requests == (0 - 1)..(NumCpus + 1)

\* new Raytracer(scene, camera, width, height) or
\* new MultiThreadedRaytracer(scene, camera, width, height)
CallNew ==
    /\ call = NoCall
    /\ \E on \in {"st", "mt"} : call' = [fn |-> "new", on |-> on, arg |-> 0]
    /\ st' = Raytracer(SphereScene, AxisCamera, 1, 1)
    /\ mt' = MultiThreadedRaytracer(SphereScene, AxisCamera, 1, 1)
    /\ UNCHANGED <<rng, px, stImage, stDone, tiles, sent, started, worker,
                   events, promise, arrival, render, image>>

\* the object a setter is called on, replaced by its new value
Target == IF call.on = "st" THEN st ELSE mt

Becomes(r, fn, arg) ==
    /\ call.fn # "none"
    /\ IF call.on = "st" THEN st' = r /\ mt' = mt ELSE mt' = r /\ st' = st
    /\ call' = [fn |-> fn, on |-> call.on, arg |-> arg]
    /\ UNCHANGED <<rng, px, stImage, stDone, tiles, sent, started, worker,
                   events, promise, arrival, render, image>>

CallSetSamples == \E n \in 0..MaxSamples : Becomes([Target EXCEPT !.samples = n], "setSamples", n)

CallSetMaxDepth == \E d \in {1, 10} : Becomes([Target EXCEPT !.maxDepth = d], "setMaxDepth", d)

CallSetStratifiedSampling ==
    \E e \in BOOLEAN : Becomes([Target EXCEPT !.useStratifiedSampling = e], "setStratifiedSampling", e)

CallSetGammaCorrection ==
    \E g \in {10, 22} : Becomes([Target EXCEPT !.gammaCorrection = g], "setGammaCorrection", g)

CallSetRandomSeed ==
    \E seed \in {42, 12345} : Becomes([Target EXCEPT !.randomSeed = seed], "setRandomSeed", seed)

CallSetAntialiasingQuality ==
    \E q \in Qualities :
        Becomes(IF call.on = "st" THEN setAntialiasingQuality(st, q)
                ELSE MTsetAntialiasingQuality(mt, q),
                "setAntialiasingQuality", q)

CallSetNumThreads ==
    /\ call.fn # "none" /\ call.on = "mt"
    /\ \E n \in Requests : Becomes(setNumThreads(mt, n), "setNumThreads", n)

\* RenderApp.render(..., useMultiThreading, numThreads, ...): a new renderer
CallAppRender ==
    /\ call = NoCall
    /\ \E useMultiThreading \in BOOLEAN, n \in Requests :
          /\ IF UsesMultiThreading(useMultiThreading, n)
             THEN /\ mt' = setNumThreads(MultiThreadedRaytracer(SphereScene, AxisCamera, 1, 1),
                                         ActualThreads(n))
                  /\ st' = st
             ELSE /\ st' = Raytracer(SphereScene, AxisCamera, 1, 1)
                  /\ mt' = mt
          /\ call' = [fn |-> "RenderApp.render",
                      on |-> IF UsesMultiThreading(useMultiThreading, n) THEN "mt" ELSE "st",
                      arg |-> n, useMultiThreading |-> useMultiThreading]
    /\ UNCHANGED <<rng, px, stImage, stDone, tiles, sent, started, worker,
                   events, promise, arrival, render, image>>

NextConfig ==
    \/ CallNew \/ CallSetSamples \/ CallSetMaxDepth \/ CallSetStratifiedSampling
    \/ CallSetGammaCorrection \/ CallSetRandomSeed \/ CallSetAntialiasingQuality
    \/ CallSetNumThreads \/ CallAppRender

SpecConfig == InitCall /\ [][NextConfig]_vars

(***************************************************************************)
(* SpecNurbs: one construction of a NURBSSurface over a rectangular        *)
(* control grid, with knot vectors of every length up to one more than the *)
(* longest valid one; one findKnotSpan call of evaluatePoint on a surface  *)
(* that passed validate(); or one intersect call on a constructed surface. *)
(***************************************************************************)
MaxCount == 2

Degrees == 0..2

\* a uCount x vCount grid of control points in the plane y = 0
ControlGrid(uCount, vCount) ==
    [i \in 1..uCount |-> [j \in 1..vCount |-> Vec3(i - 1, 0, j - 1)]]

UnitWeights(uCount, vCount) == [i \in 1..uCount |-> [j \in 1..vCount |-> FScale]]

\* a knot vector of the given length: zeros, then ones
Knots(length) == [k \in 1..length |-> IF 2 * k <= length THEN 0 ELSE FScale]

KnotLengths == 1..(MaxCount + 4)

CallNURBSSurface ==
    /\ call = NoCall
    /\ \E uCount \in 1..MaxCount, vCount \in 1..MaxCount, uDegree \in Degrees,
          vDegree \in Degrees, uLen \in KnotLengths, vLen \in KnotLengths :
          call' = [fn |-> "NURBSSurface",
                   uCount |-> uCount, vCount |-> vCount,
                   uDegree |-> uDegree, vDegree |-> vDegree,
                   uKnots |-> Knots(uLen), vKnots |-> Knots(vLen),
                   ret |-> NURBSSurface(ControlGrid(uCount, vCount),
                                        UnitWeights(uCount, vCount),
                                        Knots(uLen), Knots(vLen), uDegree, vDegree, Red)]
    /\ UNCHANGED <<rng, st, mt, px, stImage, stDone, tiles, sent, started, worker,
                   events, promise, arrival, render, image>>

\* the knot values and the parameters evaluatePoint passes after clamping
KnotValues == {0, Half, FScale}
Parameters == {0, Half \div 2, Half, Half + Half \div 2, FScale}

\* this.findKnotSpan(u, this.uKnots, this.uDegree) of evaluatePoint, on a
\* surface whose constructor got past validate()
CallFindKnotSpan ==
    /\ call = NoCall
    /\ \E count \in 1..MaxCount, degree \in Degrees, length \in KnotLengths :
          \E knots \in [1..length -> KnotValues], u \in Parameters :
              /\ validate([uCount |-> count, vCount |-> count, uDegree |-> degree,
                           vDegree |-> degree, uKnots |-> knots, vKnots |-> knots])
              /\ call' = [fn |-> "findKnotSpan", u |-> u, knots |-> knots,
                          degree |-> degree, count |-> count,
                          ret |-> findKnotSpan(u, knots, degree)]
    /\ UNCHANGED <<rng, st, mt, px, stImage, stDone, tiles, sent, started, worker,
                   events, promise, arrival, render, image>>

\* a bilinear patch over [0, 15] x [0, 15] with one corner raised, and a
\* biquadratic dome over the same square; the knot vectors are clamped, so
\* every denominator of computeBasisFunctions is 1
SaddleGrid ==
    <<<<Vec3(0, 0, 0), Vec3(0, 0, Resolution)>>,
      <<Vec3(Resolution, 0, 0), Vec3(Resolution, 6, Resolution)>>>>
DomeGrid ==
    [i \in 1..3 |-> [j \in 1..3 |->
        <<(i - 1) * Half * Resolution, IF i = 2 /\ j = 2 THEN 8 * FScale ELSE 0,
          (j - 1) * Half * Resolution>>]]
Saddle ==
    Tessellated(NURBSSurface(SaddleGrid, UnitWeights(2, 2), <<0, 0, FScale, FScale>>,
                             <<0, 0, FScale, FScale>>, 1, 1, Red).surface)
Dome ==
    Tessellated(NURBSSurface(DomeGrid, UnitWeights(3, 3),
                             <<0, 0, 0, FScale, FScale, FScale>>,
                             <<0, 0, 0, FScale, FScale, FScale>>, 2, 2, Mirror).surface)

\* rays straight down and straight up through the square and beside it, and
\* level rays along +x and -x at three heights
MeshRays ==
    {Ray(<<x * Half, y, z * Half>>, d, TMin, Infinity) :
        x \in {1, 7, 15, 33}, z \in {1, 7, 15}, y \in {-FScale, 9 * FScale},
        d \in {Vec3(0, -1, 0), Vec3(0, 1, 0)}}
    \cup {Ray(<<x, y * Half, z * Half>>, d, TMin, Infinity) :
        x \in {-FScale, 16 * FScale}, y \in {1, 2, 5}, z \in {7, 15},
        d \in {Vec3(1, 0, 0), Vec3(-1, 0, 0)}}

MeshIntervals ==
    {<<TMin, Infinity>>, <<TMin, 8 * FScale>>, <<8 * FScale, Infinity>>,
     <<9 * FScale, 12 * FScale>>}

\* surface.intersect(ray, tMin, tMax, hitRecord) on a constructed surface;
\* this is the surface after the call
CallNurbsIntersect ==
    /\ call = NoCall
    /\ \E surface \in {Saddle, Dome}, ray \in MeshRays, iv \in MeshIntervals :
          call' = [fn |-> "NURBSSurface.intersect", surface |-> surface, ray |-> ray,
                   tMin |-> iv[1], tMax |-> iv[2], this |-> surface,
                   ret |-> NURBSIntersect(surface, ray, iv[1], iv[2])]
    /\ UNCHANGED <<rng, st, mt, px, stImage, stDone, tiles, sent, started, worker,
                   events, promise, arrival, render, image>>

NextNurbs == CallNURBSSurface \/ CallFindKnotSpan \/ CallNurbsIntersect

SpecNurbs == InitCall /\ [][NextNurbs]_vars

(***************************************************************************)
(* SpecSeed: one call of getPixelSeed for a pixel of an image.  The widths *)
(* are the small ones and 1285, for which 1337 * width + 3571 is a         *)
(* multiple of 1337 + 7919.                                                *)
(***************************************************************************)
WideImage == 1285

MaxColumn == 200

CallGetPixelSeed ==
    /\ call = NoCall
    /\ \E baseSeed \in {0, 42, 12345}, width \in 1..MaxWidth \cup {WideImage},
          height \in 1..MaxWidth :
          \E x \in 0..Min(width - 1, MaxColumn), y \in 0..(height - 1) :
              call' = [fn |-> "getPixelSeed", baseSeed |-> baseSeed, x |-> x, y |-> y,
                       width |-> width, height |-> height,
                       ret |-> getPixelSeed(baseSeed, x, y, width, height)]
    /\ UNCHANGED <<rng, st, mt, px, stImage, stDone, tiles, sent, started, worker,
                   events, promise, arrival, render, image>>

NextSeed == CallGetPixelSeed

SpecSeed == InitCall /\ [][NextSeed]_vars

(***************************************************************************)
(* Claims                                                                  *)
(***************************************************************************)

\* the successful results that exist: posted and not yet handled, or held by a promise
Results ==
    UNION {{events[t][i].result : i \in {j \in 1..Len(events[t]) :
                                             /\ events[t][j].type = "message"
                                             /\ events[t][j].result.success}} :
           t \in DOMAIN events}
    \cup {promise[t].value : t \in {u \in DOMAIN promise : promise[u].state = "fulfilled"}}

\* the x and the y renderPixel was called with, read from the pixel's first ray
PixelX(pixel) == pixel.traced[1].ray.u.p
PixelY(pixel) == pixel.traced[1].ray.v.p

\* C1 (as claimed): the raster of MultiThreadedRaytracer.render() is identical,
\* row for row and pixel for pixel, to the raster of Raytracer.render() with the
\* same settings, for every scene, camera, size, seed and worker count.
C1_Identical == (stDone /\ render = "resolved") => image = stImage

\* C2: whatever the strips are, the worker that renders pixel (x, y) derives the
\* seed single-threaded rendering derives for it (global x and y, full width),
\* and the pixel it yields is the one a worker given the whole image as one
\* strip yields, so the strip boundaries change no pixel.
C2_SeedPerPixel ==
    Results # {} =>
        LET whole == renderTile(WorkerRaytracer(sent[1]),
                                [sent[1].tileConfig EXCEPT !.startY = 0,
                                                           !.endY = mt.height,
                                                           !.height = mt.height])
        IN  \A res \in Results :
                \A k \in 1..Len(res.tileImage) : \A i \in 1..mt.width :
                    LET y == res.endY - k
                    IN  /\ res.tileImage[k][i].seed = stImage[mt.height - y][i].seed
                        /\ res.tileImage[k][i] = whole[mt.height - y][i]

C2_Witness ==
    \E res \in Results : res.startY > 0 /\ Len(tiles) >= 2 /\ mt.width >= 2

\* C3: the row order of the final image does not depend on the order in which
\* the workers finish: rows follow the strips' starting rows (y descending),
\* and reassembling the results in arrival order gives the same image.
C3_OrderByStartRow ==
    render = "resolved" =>
        /\ \A k \in 1..(Len(image) - 1) : PixelY(image[k][1]) > PixelY(image[k + 1][1])
        /\ image = combineTiles([i \in 1..Len(arrival) |-> promise[arrival[i]].value])

C3_Witness ==
    /\ render = "resolved"
    /\ Len(tiles) >= 3
    /\ arrival[1] = 2 /\ arrival[2] = 1

\* C4: render() returns an image only after every strip's worker has reported a
\* successful result: while some strip is pending nothing has been delivered.
C4_Barrier ==
    /\ render = "resolved" => \A t \in DOMAIN promise : promise[t].state = "fulfilled"
    /\ (\E t \in DOMAIN promise : promise[t].state # "fulfilled") => image = <<>>
    /\ image # <<>> => render = "resolved"

C4_Witness ==
    /\ render = "pending"
    /\ \E t, u \in DOMAIN promise :
          promise[t].state = "fulfilled" /\ promise[u].state = "pending"

\* a failure of worker t that the main thread has not handled yet
FailurePending(t) ==
    \E i \in 1..Len(events[t]) :
        \/ events[t][i].type = "message" /\ ~events[t][i].result.success
        \/ events[t][i].type = "error"
        \/ events[t][i].type = "exit" /\ events[t][i].code # 0

\* C5: if a worker fails (a success:false message, an 'error' event, or a
\* non-zero exit before a result) render() ends in an error and never returns
\* an image, and no strip is dispatched a second time.
C5_FailureAborts ==
    \A t \in DOMAIN promise :
        /\ promise[t].state = "rejected" => (render = "rejected" /\ image = <<>>)
        /\ (promise[t].state = "pending" /\ FailurePending(t)) => render # "resolved"
        /\ started[t] = 1

C5_Witness ==
    /\ render = "rejected"
    /\ \E t, u \in DOMAIN promise :
          promise[t].state = "rejected" /\ promise[u].state = "fulfilled"

\* C6: the strips are non-empty half-open row ranges, pairwise disjoint,
\* contiguous, and cover exactly rows 0 .. height-1; every row belongs to
\* exactly one strip, and each strip has exactly one worker.
C6_Partition ==
    render # "idle" =>
        /\ Len(tiles) >= 1
        /\ tiles[1].startY = 0
        /\ tiles[Len(tiles)].endY = mt.height
        /\ \A t \in 1..Len(tiles) : tiles[t].startY < tiles[t].endY
        /\ \A t \in 1..(Len(tiles) - 1) : tiles[t].endY = tiles[t + 1].startY
        /\ \A y \in 0..(mt.height - 1) :
              Cardinality({t \in 1..Len(tiles) :
                              tiles[t].startY <= y /\ y < tiles[t].endY}) = 1
        /\ \A t \in 1..Len(tiles) : started[t] = 1

C6_Witness ==
    /\ render # "idle"
    /\ Len(tiles) >= 2
    /\ tiles[Len(tiles)].height < tiles[1].height

\* C7 (as claimed): render() makes exactly N strips, N the worker count, and
\* starts one worker per strip, for every height and every N.
C7_ExactlyN ==
    render # "idle" =>
        /\ Len(tiles) = mt.numThreads
        /\ DOMAIN started = 1..mt.numThreads
        /\ \A t \in DOMAIN started : started[t] = 1

\* C7 (amended): with s = ceil(height / N) rows per strip, render() makes
\* exactly ceil(height / s) strips, which is at least 1 and at most N, and
\* starts exactly one worker per strip.
C7_StripCount ==
    render # "idle" =>
        /\ \E s \in 1..mt.height :
              /\ s * mt.numThreads >= mt.height
              /\ (s - 1) * mt.numThreads < mt.height
              /\ Len(tiles) * s >= mt.height
              /\ (Len(tiles) - 1) * s < mt.height
        /\ Len(tiles) >= 1 /\ Len(tiles) <= mt.numThreads
        /\ DOMAIN started = 1..Len(tiles)
        /\ \A t \in DOMAIN started : started[t] = 1

C7_Witness ==
    /\ render # "idle"
    /\ Len(tiles) < mt.numThreads
    /\ mt.height > mt.numThreads

\* a raster of h rows of w pixels, top row first: row k holds y = h-1-k, x increasing
TopRowFirst(img, w, h) ==
    /\ Len(img) = h
    /\ \A k \in 1..Len(img) :
          /\ Len(img[k]) = w
          /\ \A i \in 1..Len(img[k]) :
                /\ img[k][i].cls = "Color"
                /\ PixelX(img[k][i]) = i - 1
                /\ PixelY(img[k][i]) = h - k

\* C8: the returned raster has height rows of width pixels, top row first, its
\* k-th row (from 0) holding image row y = height-1-k in increasing x, for the
\* single-threaded render and for the reassembled multi-threaded render.
C8_RowMajorTopFirst ==
    /\ stDone => TopRowFirst(stImage, st.width, st.height)
    /\ render = "resolved" => TopRowFirst(image, mt.width, mt.height)

C8_Witness ==
    /\ stDone
    /\ render = "resolved"
    /\ Len(tiles) >= 2
    /\ mt.width >= 2
    /\ \E t \in 1..Len(tiles) : tiles[t].height >= 2

\* (1664525 * s + 1013904223) mod 2^32, the mathematical residue in [0, 2^32)
LcgResidue(s) ==
    LET p == LcgProduct(s)
        m == IF s.neg THEN MagSub(LcgC \div Limb, LcgC % Limb, p.hi, p.lo)
             ELSE MagAdd(p.hi, p.lo, LcgC \div Limb, LcgC % Limb)
    IN  [neg |-> FALSE, hi |-> m.hi, lo |-> m.lo]

\* C9 (as claimed): for every integer seed, each random() call sets the state to
\* (1664525 * state + 1013904223) mod 2^32, the state stays in [0, 2^32) and the
\* value returned, state / 2^32, is in [0, 1).
C9_StateInRange ==
    rng.op = "random" =>
        /\ rng.seed = LcgResidue(rng.prev)
        /\ ~rng.seed.neg /\ rng.seed.hi < Limb /\ rng.seed.lo < Limb
        /\ rng.ret = rng.seed /\ ~rng.ret.neg

RECURSIVE LcgIterate(_, _)
LcgIterate(s, n) == IF n = 0 THEN s ELSE LcgNext(LcgIterate(s, n - 1))

\* C10: renderPixel traces one ray through the pixel centre, with no random
\* draw, when samples is 1; with samples > 1 and stratified sampling it traces
\* ceil(sqrt(samples))^2 rays, one per sub-grid cell in sy-major then sx order,
\* two draws each (x then y), and divides by that number; with samples > 1 and
\* stratified sampling off it traces samples rays and divides by samples.
C10_SampleCount ==
    px.cls = "Color" =>
        LET n == Len(px.traced)
            s0 == ToState(px.seed)
        IN  /\ st.samples = 1 =>
                  /\ n = 1 /\ px.draws = 0 /\ px.div = 1
                  /\ px.traced[1].ray.u.off.kind = "center"
                  /\ px.traced[1].ray.v.off.kind = "center"
            /\ (st.samples > 1 /\ st.useStratifiedSampling) =>
                  \E k \in 1..st.samples :
                      /\ k * k >= st.samples /\ (k - 1) * (k - 1) < st.samples
                      /\ n = k * k /\ px.div = k * k /\ px.draws = 2 * k * k
                      /\ \A i \in 1..n :
                            /\ px.traced[i].ray.u.off =
                                  Offset("stratified", (i - 1) % k, k, LcgIterate(s0, 2 * i - 1))
                            /\ px.traced[i].ray.v.off =
                                  Offset("stratified", (i - 1) \div k, k, LcgIterate(s0, 2 * i))
            /\ (st.samples > 1 /\ ~st.useStratifiedSampling) =>
                  /\ n = st.samples /\ px.div = st.samples /\ px.draws = 2 * st.samples
                  /\ \A i \in 1..n :
                        /\ px.traced[i].ray.u.off.kind = "random"
                        /\ px.traced[i].ray.v.off.kind = "random"

C10_Witness ==
    /\ px.cls = "Color"
    /\ st.samples = 5
    /\ st.useStratifiedSampling
    /\ Len(px.traced) = 9

\* the set of the elements of a sequence
Range(seq) == {seq[i] : i \in DOMAIN seq}

\* the shadow ray shade builds for light i of the call, with the bounds the
\* constructor is given
ShadowRayOf(i) ==
    LET toLight == VSub(call.scene.lights[i].position, call.hit.point)
    IN  Ray(call.hit.point, VNormalize(toLight), TMin, VLength(toLight) - TMin)

\* whether some object meets the shadow ray of light i between its bounds
OccludedWithin(i) ==
    \E k \in DOMAIN call.scene.objects :
        ObjectIntersect(call.scene.objects[k], ShadowRayOf(i),
                        ShadowRayOf(i).tMin, ShadowRayOf(i).tMax).hit

\* C11 (as claimed): in shade a light is occluded only by an intersection at a
\* distance in [0.001, lightDistance - 0.001] along the shadow ray; an object
\* met only beyond the light casts no shadow, and the diffuse and specular
\* terms of the light are added to the ambient term.
C11_ShadowClipped ==
    call.fn = "shade" =>
        \A i \in DOMAIN call.scene.lights :
            /\ call.shadowed[i] <=> OccludedWithin(i)
            /\ (~OccludedWithin(i) /\ Len(call.scene.lights) = 1
                    /\ call.hit.material.reflectivity = 0) =>
                   LET terms == LightTerms(call.hit, call.ray, call.scene.lights[i])
                       ambient == ColorMultiply(call.hit.material.color,
                                                call.hit.material.ambient)
                   IN  call.ret = ColorAdd(ColorAdd(ambient, terms[1]), terms[2])

\* C12 (as claimed): the hit record of Scene.intersect is the same for every
\* order in which the same objects were added, ties in t included.
C12_OrderIrrelevant ==
    call.fn = "Scene.intersect" =>
        \A objects \in ObjectLists :
            Range(objects) = Range(call.scene.objects) =>
                SceneIntersect(Scene(objects, call.scene.lights, call.scene.backgroundColor),
                               call.ray, call.tMin, call.tMax) = call.ret

\* the roots of the sphere equation of the call that lie in [tMin, tMax]
RootsInside ==
    LET roots == SphereRoots(call.object, call.ray)
    IN  {roots[i] : i \in {j \in DOMAIN roots : call.tMin <= roots[j] /\ roots[j] <= call.tMax}}

\* C18: Sphere.intersect misses when the discriminant is negative or no root
\* lies in [tMin, tMax]; otherwise it reports the smallest root inside the
\* interval, with the point at that distance on the sphere.  The ray from
\* (0,0,2) along -Z meets the unit sphere at the origin at t = 1 with normal
\* (0,0,1).
C18_SmallestRoot ==
    call.fn = "Sphere.intersect" =>
        /\ call.ret.hit <=> RootsInside # {}
        /\ call.ret.hit =>
              /\ call.ret.t \in RootsInside
              /\ \A root \in RootsInside : call.ret.t <= root
              /\ call.ret.point = RayAt(call.ray, call.ret.t)
              /\ VLength(VSub(call.ret.point, call.object.center)) = call.object.radius
        /\ (call.object = UnitSphere /\ call.ray.origin = Vec3(0, 0, 2)
                /\ call.ray.direction = Vec3(0, 0, -1) /\ call.tMin = TMin
                /\ call.tMax = Infinity) =>
               (call.ret.hit /\ call.ret.t = FScale /\ call.ret.normal = Vec3(0, 0, 1))

\* the smaller root is below tMin and the larger one is reported
C18_Witness ==
    /\ call.fn = "Sphere.intersect"
    /\ call.ret.hit
    /\ Len(SphereRoots(call.object, call.ray)) = 2
    /\ SphereRoots(call.object, call.ray)[1] < call.tMin
    /\ call.ret.t = SphereRoots(call.object, call.ray)[2]
    /\ call.ret.t > SphereRoots(call.object, call.ray)[1]

\* whether the ray of the call runs along z through a point of the shared
\* edge x + y = 1 of EdgeT1 and EdgeT2 and reaches z = 0 inside (tMin, tMax)
ThroughSharedEdge ==
    /\ call.ray.origin[1] + call.ray.origin[2] = FScale
    /\ call.ray.origin[1] >= 0 /\ call.ray.origin[2] >= 0
    /\ call.ray.origin[3] # 0
    /\ (call.ray.origin[3] > 0) = (call.ray.direction[3] < 0)
    /\ call.tMin < Abs(call.ray.origin[3]) /\ Abs(call.ray.origin[3]) < call.tMax

\* C19 (as claimed): a ray exactly through the edge shared by two adjacent
\* triangles is a hit of exactly one of the two intersect tests.
C19_ExactlyOne ==
    (call.fn = "Triangle.intersect" /\ ThroughSharedEdge) =>
        Cardinality({triangle \in {EdgeT1, EdgeT2} :
                        TriangleIntersect(triangle, call.ray, call.tMin, call.tMax).hit}) = 1

\* C13 (as claimed): every Color that exists has its three channels in [0, 1],
\* whatever sequence of construction, add, multiply, blend, averaging, gamma
\* correction and reassembly produced it.
C13_ChannelsInRange ==
    (call # NoCall /\ "ops" \in DOMAIN call) =>
        /\ 0 <= call.ret.r /\ call.ret.r <= FScale
        /\ 0 <= call.ret.g /\ call.ret.g <= FScale
        /\ 0 <= call.ret.b /\ call.ret.b <= FScale

\* the gamma exponents a stored pixel must carry: the renderer's, once, or none for 1.0
GammaOnce == IF mt.gammaCorrection # 10 THEN <<mt.gammaCorrection>> ELSE <<>>

\* C14: gamma correction is applied exactly once to each final pixel colour
\* (to the average, not to a sample), the same way by Raytracer.render and by
\* the worker's renderTile, and not at all with gammaCorrection = 1.0; the
\* reassembled image carries the workers' pixels without a further exponent.
C14_GammaOnce ==
    /\ stDone =>
          \A k \in 1..Len(stImage) : \A i \in 1..Len(stImage[k]) :
              stImage[k][i].gamma = GammaOnce
    /\ \A res \in Results :
          \A k \in 1..Len(res.tileImage) : \A i \in 1..Len(res.tileImage[k]) :
              res.tileImage[k][i].gamma = GammaOnce
    /\ render = "resolved" =>
          \A k \in 1..Len(image) : \A i \in 1..Len(image[k]) : image[k][i].gamma = GammaOnce

C14_Witness ==
    /\ stDone
    /\ render = "resolved"
    /\ mt.gammaCorrection # 10
    /\ mt.samples > 1
    /\ image[1][1].gamma = <<mt.gammaCorrection>>
    /\ Len(image[1][1].traced) > 1

\* the sample count the claim gives for a quality
PresetSamples(q) ==
    CASE q = "none" -> 1 [] q = "low" -> 4 [] q = "medium" -> 9 [] q = "high" -> 16
      [] q = "ultra" -> 25

\* C15 (as claimed): after setAntialiasingQuality(q), q one of none, low,
\* medium, high, ultra in any letter case, whatever setters were called
\* before, samples is 1, 4, 9, 16, 25 and useStratifiedSampling is true, on a
\* Raytracer and on a MultiThreadedRaytracer.
C15_Presets ==
    (call.fn = "setAntialiasingQuality"
        /\ ToLowerCase(call.arg) \in {"none", "low", "medium", "high", "ultra"}) =>
        /\ Target.samples = PresetSamples(ToLowerCase(call.arg))
        /\ Target.useStratifiedSampling

\* the thread count the renderer of the last call works with (1 for a Raytracer)
ThreadsUsed == IF call.on = "mt" THEN mt.numThreads ELSE 1

\* C16 (as claimed): the worker count is the requested thread count clamped to
\* at least 1: below 1 gives 1, n >= 1 gives n.
C16_AtLeastOne ==
    (call.fn = "setNumThreads" \/ (call.fn = "RenderApp.render" /\ call.useMultiThreading)) =>
        ThreadsUsed = IF call.arg < 1 THEN 1 ELSE call.arg

\* C16 (amended): setNumThreads(n) keeps n clamped to [1, number of CPUs];
\* RenderApp.render takes a request of 0 as the number of CPUs and uses the
\* multi-threaded renderer, with that clamped count, only when it was asked
\* for and the count requested exceeds 1, and the single-threaded one otherwise.
C16_Clamped ==
    /\ call.fn = "setNumThreads" =>
          /\ call.arg < 1 => mt.numThreads = 1
          /\ (call.arg >= 1 /\ call.arg <= NumCpus) => mt.numThreads = call.arg
          /\ call.arg > NumCpus => mt.numThreads = NumCpus
    /\ call.fn = "RenderApp.render" =>
          LET n == IF call.arg = 0 THEN NumCpus ELSE call.arg
          IN  IF call.useMultiThreading /\ n > 1
              THEN call.on = "mt" /\ mt.numThreads = (IF n > NumCpus THEN NumCpus ELSE n)
              ELSE call.on = "st"

C16_Witness ==
    /\ call.fn = "setNumThreads"
    /\ call.arg > NumCpus
    /\ mt.numThreads = NumCpus

\* the knot vectors of the last construction do not fit its control grid
KnotsMismatch ==
    \/ Len(call.uKnots) # call.uCount + call.uDegree + 1
    \/ Len(call.vKnots) # call.vCount + call.vDegree + 1

KindOf(obj) ==
    IF Has(obj, "center") THEN "sphere"
    ELSE IF Has(obj, "point") THEN "plane"
    ELSE IF Has(obj, "v0") THEN "triangle"
    ELSE "nurbs"

\* C20 (as claimed): the workers of one render all receive the same scene
\* data, camera data, render configuration and base seed, and the scene a
\* worker rebuilds from its message has the objects of the original scene:
\* same count, order, kind, geometry and material, same lights and background.
C20_SameScene ==
    \A t \in DOMAIN sent :
        /\ \A u \in DOMAIN sent :
              /\ sent[u].sceneData = sent[t].sceneData
              /\ sent[u].cameraData = sent[t].cameraData
              /\ sent[u].renderConfig = sent[t].renderConfig
              /\ sent[u].tileConfig.seed = sent[t].tileConfig.seed
        /\ sent[t].tileConfig.seed = mt.randomSeed
        /\ LET rebuilt == reconstructScene(sent[t].sceneData)
           IN  /\ Len(rebuilt.objects) = Len(mt.scene.objects)
               /\ \A i \in 1..Len(rebuilt.objects) :
                     /\ KindOf(rebuilt.objects[i]) = KindOf(mt.scene.objects[i])
                     /\ rebuilt.objects[i] = mt.scene.objects[i]
               /\ rebuilt.lights = mt.scene.lights
               /\ rebuilt.backgroundColor = mt.scene.backgroundColor

\* worker t has posted its successful result (handled by the main thread or not yet)
PostedSuccess(t) ==
    \/ promise[t].state = "fulfilled"
    \/ \E i \in 1..Len(events[t]) :
          events[t][i].type = "message" /\ events[t][i].result.success

\* worker t has reported nothing: no result, no error, no exit
Silent(t) == worker[t] = "working" /\ events[t] = <<>> /\ promise[t].state = "pending"

\* C21: render() resolves with an image exactly when every strip's worker
\* posts a successful result: a resolved render has a result from every
\* worker, and once every worker has posted one the render resolves; while a
\* worker has reported nothing and no worker has failed the render is pending,
\* and it leaves the pending state only in a step that handles a worker's
\* event (there is no timeout and no cancellation).
C21_ResolvesWhenAllPosted ==
    /\ [](render = "resolved" => \A t \in DOMAIN promise : PostedSuccess(t))
    /\ (render # "idle" /\ \A t \in DOMAIN promise : PostedSuccess(t)) ~> (render = "resolved")
    /\ []((render # "idle"
            /\ (\E t \in DOMAIN promise : Silent(t))
            /\ (\A t \in DOMAIN promise : promise[t].state # "rejected"))
          => render = "pending")
    /\ [][(render = "pending" /\ render' # "pending") =>
            \E t \in DOMAIN events : events[t] # <<>> /\ events'[t] # events[t]]_vars

C21_Witness ==
    /\ render = "resolved"
    /\ Len(tiles) >= 2
    /\ image # <<>>
    /\ \A t \in DOMAIN promise : PostedSuccess(t) /\ events[t] = <<>>

\* worker t has stopped without having posted a result message
StoppedWithoutResult(t) ==
    /\ worker[t] = "exited"
    /\ promise[t].state # "fulfilled"
    /\ \A i \in 1..Len(events[t]) : events[t][i].type # "message"

\* C30 (as claimed): whenever a worker thread stops, with any exit code,
\* without having posted a result message, render() eventually rejects.
C30_ExitRejects ==
    \A t \in 1..MaxStrips :
        (t \in DOMAIN worker /\ StoppedWithoutResult(t)) ~> (render = "rejected")

\* the worker's events in the queue of strip t are all it has emitted so far
FirstEventQueued(t) ==
    \/ worker[t] = "working" /\ events[t] = <<>>
    \/ worker[t] = "idle" /\ Len(events[t]) = 1 /\ events[t][1].type = "message"
    \/ /\ worker[t] = "exited"
       /\ \/ Len(events[t]) = 1 /\ events[t][1].type = "exit"
          \/ Len(events[t]) = 2 /\ events[t][1].type = "error" /\ events[t][2].type = "exit"

C22_OwnGenerator ==
    /\ [](px.cls = "Color" =>
            LET s0 == ToState(getPixelSeed(st.randomSeed, PixelX(px), PixelY(px),
                                           st.width, st.height))
                n == Len(px.traced)
                kind == IF st.useStratifiedSampling THEN "stratified" ELSE "random"
            IN  /\ st.samples = 1 => px.draws = 0
                /\ st.samples > 1 =>
                      /\ px.draws = 2 * n
                      /\ \A i \in 1..n :
                            /\ px.traced[i].ray.u.off.kind = kind
                            /\ px.traced[i].ray.u.off.r = LcgIterate(s0, 2 * i - 1)
                            /\ px.traced[i].ray.v.off.kind = kind
                            /\ px.traced[i].ray.v.off.r = LcgIterate(s0, 2 * i))
    /\ [][px' # px => rng' = rng]_vars

C22_Witness ==
    /\ px.cls = "Color"
    /\ st.samples = 3 /\ ~st.useStratifiedSampling
    /\ PixelX(px) = 1 /\ PixelY(px) = 2
    /\ px.draws = 6
    /\ rng.calls = 2

\* the pixels of the image of the last call
PixelsOf(width, height) == (0..(width - 1)) \X (0..(height - 1))

\* C28 (as claimed): for a fixed base seed and image size two different
\* pixels of the image never receive the same seed.
C28_UniqueSeed ==
    call.fn = "getPixelSeed" =>
        \A p \in PixelsOf(call.width, call.height) :
            p # <<call.x, call.y>> =>
                getPixelSeed(call.baseSeed, p[1], p[2], call.width, call.height) # call.ret

\* C23: traceRay(ray, depth) terminates: with depth <= 0 it returns black
\* without querying the scene; every nested call has the depth of its caller
\* less one and is made only by a call with depth > 1 that hit a material
\* with reflectivity > 0, so a call with depth d >= 1 makes at most d
\* traceRay calls in all, itself included, also between facing mirrors.
C23_DepthDecreases ==
    call.fn = "traceRay" =>
        LET c == call.calls
        IN  /\ Len(c) >= 1
            /\ Len(c) <= (IF call.depth >= 1 THEN call.depth ELSE 1)
            /\ call.depth <= 0 => (~c[1].queried /\ call.ret = Color(0, 0, 0))
            /\ \A i \in 1..Len(c) :
                  /\ c[i].depth = call.depth - (i - 1)
                  /\ c[i].queried <=> c[i].depth > 0
                  /\ i < Len(c) => (c[i].reflectivity > 0 /\ c[i].depth > 1)

C23_Witness ==
    /\ call.fn = "traceRay"
    /\ call.scene = MirrorHall
    /\ call.depth = MaxDepth
    /\ Len(call.calls) = MaxDepth

\* the hit records of the objects of the last Scene.intersect call, each
\* object tested alone against [tMin, tMax]
ObjectHits ==
    {r \in {ObjectIntersect(call.scene.objects[i], call.ray, call.tMin, call.tMax) :
                i \in DOMAIN call.scene.objects} : r.hit}

\* C24: Scene.intersect(ray, tMin, tMax) returns none exactly when no object
\* of the scene is hit with t in [tMin, tMax]; otherwise the record has
\* tMin <= t <= tMax, its t is at most the hit distance of every object that
\* is hit, and the whole record (t, point, normal, material) is the record
\* of one of the objects hit.
C24_NearestHit ==
    call.fn = "Scene.intersect" =>
        /\ ~call.ret.hit <=> ObjectHits = {}
        /\ call.ret.hit =>
              /\ call.tMin <= call.ret.t /\ call.ret.t <= call.tMax
              /\ \A r \in ObjectHits : call.ret.t <= r.t
              /\ call.ret \in ObjectHits

C24_Witness ==
    /\ call.fn = "Scene.intersect"
    /\ call.ret.hit
    /\ Len(call.scene.objects) = 3
    /\ \E r \in ObjectHits : r.t > call.ret.t
    /\ call.ret # ObjectIntersect(call.scene.objects[3], call.ray, call.tMin, call.tMax)

\* the outward normal the primitive of the last call hands to setFaceNormal:
\* (point - center) / radius for a sphere, this.normal for a plane or triangle
OutwardNormal ==
    IF call.fn = "Sphere.intersect"
    THEN VMultiply(VSub(call.ret.point, call.object.center),
                   FDiv(FScale, call.object.radius))
    ELSE call.object.normal

PrimitiveHit ==
    /\ call.fn \in {"Sphere.intersect", "Plane.intersect", "Triangle.intersect"}
    /\ call.ret.hit

\* C25: the normal of a hit record of Sphere, Plane or Triangle intersect
\* faces the incoming ray, dot(ray.direction, normal) <= 0; frontFace is true
\* exactly when dot(ray.direction, outwardNormal) < 0, and the stored normal
\* is the outward normal then and the negated outward normal otherwise.
C25_FacesRay ==
    PrimitiveHit =>
        /\ VDot(call.ray.direction, call.ret.normal) <= 0
        /\ call.ret.frontFace <=> VDot(call.ray.direction, OutwardNormal) < 0
        /\ call.ret.normal = IF call.ret.frontFace THEN OutwardNormal
                              ELSE VNegate(OutwardNormal)

\* a hit from behind: the outward normal points along the ray and is negated
C25_Witness ==
    /\ PrimitiveHit
    /\ call.fn = "Plane.intersect"
    /\ ~call.ret.frontFace
    /\ VDot(call.ray.direction, OutwardNormal) > 0
    /\ call.ret.normal = VNegate(OutwardNormal)

\* the control-point indices evaluatePoint forms from the span of the last
\* findKnotSpan call: span - degree + i for 0 <= i <= degree
ControlIndices == {call.ret - call.degree + i : i \in 0..call.degree}

\* C27: on a surface that passed validation, for u in [0, 1], findKnotSpan
\* terminates with degree <= span <= count - 1, with
\* knots[span] <= u < knots[span + 1] whenever knots[degree] < u < knots[count],
\* and every control-point index span - degree + i lies inside the grid.
C27_SpanInGrid ==
    call.fn = "findKnotSpan" =>
        /\ call.ret # Diverges
        /\ call.degree <= call.ret /\ call.ret <= call.count - 1
        /\ (call.knots[call.degree + 1] < call.u /\ call.u < call.knots[call.count + 1])
               => (call.knots[call.ret + 1] <= call.u /\ call.u < call.knots[call.ret + 2])
        /\ \A index \in ControlIndices : 0 <= index /\ index < call.count

\* the hit records of the triangles of the mesh of the last
\* NURBSSurface.intersect call, each tested alone against [tMin, tMax]
TriangleHits ==
    {r \in {TriangleIntersect(call.surface.triangles[k], call.ray, call.tMin, call.tMax) :
                k \in DOMAIN call.surface.triangles} : r.hit}

\* C26: NURBSSurface.intersect misses when the ray misses the bounding box
\* within [tMin, tMax]; otherwise it hits exactly when some triangle of the
\* mesh is hit in [tMin, tMax], and the record is that of a mesh triangle
\* with the smallest such t.  The mesh has 2 triangles for each of the
\* 15 x 15 cells and the call leaves it as it was.
C26_MeshNearest ==
    call.fn = "NURBSSurface.intersect" =>
        /\ ~intersectBoundingBox(call.surface, call.ray, call.tMin, call.tMax)
               => ~call.ret.hit
        /\ intersectBoundingBox(call.surface, call.ray, call.tMin, call.tMax)
               => /\ call.ret.hit <=> TriangleHits # {}
                  /\ call.ret.hit =>
                        /\ call.ret \in TriangleHits
                        /\ \A r \in TriangleHits : call.ret.t <= r.t
        /\ Len(call.surface.triangles) = 2 * 15 * 15
        /\ call.this.triangles = call.surface.triangles

\* a ray that crosses the mesh more than once: a farther triangle is hit too
C26_Witness ==
    /\ call.fn = "NURBSSurface.intersect"
    /\ call.ret.hit
    /\ \E r \in TriangleHits : r.t > call.ret.t

====
